---- MODULE Spec2Model ----
(***************************************************************************)
(* Pidie Ride mock API (server.js): an Express server over one lowdb       *)
(* document store.  Every route handler runs to completion on the single   *)
(* Node thread (lowdb's FileSync adapter is synchronous), so a handler is  *)
(* one atomic step: it reads the store, possibly writes it, and produces   *)
(* one response.                                                           *)
(***************************************************************************)
EXTENDS Integers, Sequences, FiniteSets, TLC

VARIABLES
    customers,      \* db.customers
    drivers,        \* db.drivers
    partners,       \* db.partners
    admin,          \* db.admin
    menu,           \* db.menu
    orders,         \* db.orders
    deliveries,     \* db.deliveries
    rides,          \* db.rides
    notifications,  \* db.notifications
    req,            \* the request being served (route, credential, :id)
    resp,           \* the response written for it
    served,         \* number of requests served so far
    issued,         \* history: per creating collection, the ids its records have held
    accepted        \* history: the accepts served, as <<collection, :id, driver id>>

store == <<customers, drivers, partners, admin, menu, orders, deliveries, rides,
           notifications>>
vars == <<customers, drivers, partners, admin, menu, orders, deliveries, rides,
          notifications, req, resp, served, issued, accepted>>

(***************************************************************************)
(* Bounds of the model.                                                    *)
(***************************************************************************)
MaxOrders == 2      \* orders (and so deliveries) created in one run
MaxRides == 2       \* rides created in one run
MaxMenu == 3        \* menu items held at once
MaxAdmins == 2      \* admin accounts held at once
MaxId == 3          \* largest :id a request names
MaxRequests == 3    \* requests served in one run of the whole server

(***************************************************************************)
(* JavaScript values.                                                      *)
(***************************************************************************)
\* null (and undefined where the code treats both alike); ids start at 1
Null == 0
\* a raw numeric input for which Number(x) is NaN (absent or not a number)
NaN == -1

\* Number(x) || 0
NumberOr0(x) == IF x = NaN THEN 0 ELSE x

\* _.assign(rec, upd): upd's fields overwrite or extend rec's
Assign(rec, upd) ==
    [k \in DOMAIN rec \cup DOMAIN upd |-> IF k \in DOMAIN upd THEN upd[k] ELSE rec[k]]

\* a field of a request body, or dflt when the body has no such field
Field(body, f, dflt) == IF f \in DOMAIN body THEN body[f] ELSE dflt

\* does record r carry every field of pattern pat with the same value (_.matches)
Matches(r, pat) == \A k \in DOMAIN pat : k \in DOMAIN r /\ r[k] = pat[k]

\* db.get(coll).find(pat): index of the first matching record, 0 when none
Find(coll, pat) ==
    IF \E i \in DOMAIN coll : Matches(coll[i], pat)
    THEN CHOOSE i \in DOMAIN coll :
            /\ Matches(coll[i], pat)
            /\ \A j \in 1..(i - 1) : ~Matches(coll[j], pat)
    ELSE 0

\* db.get(coll).filter(pat).value()
Filter(coll, pat) == SelectSeq(coll, LAMBDA r : Matches(r, pat))

\* db.get(coll).find(pat).assign(upd).write(): the first match is updated in
\* place; with no match lodash assigns onto a fresh object and the store is
\* written back as it was
FindAssign(coll, pat, upd) ==
    IF Find(coll, pat) = 0 THEN coll
    ELSE [coll EXCEPT ![Find(coll, pat)] = Assign(@, upd)]

\* db.get(coll).remove(pat).write(): every match is removed
Remove(coll, pat) == SelectSeq(coll, LAMBDA r : ~Matches(r, pat))

\* Math.max(...coll.map(x => x.id))
MaxIdOf(coll) == CHOOSE m \in {coll[i].id : i \in DOMAIN coll} :
                    \A i \in DOMAIN coll : coll[i].id <= m

\* an id taken from the number of records held instead of the largest id
NewIdByCount(coll) == Len(coll) + 1

\* (coll.value() && coll.value().length) ? Math.max(...ids) + 1 : 1
NewId(coll) == IF Len(coll) # 0 THEN MaxIdOf(coll) + 1 ELSE 1

\* a projection of a record onto some of its fields
Pick(r, fields) == [k \in fields \cap DOMAIN r |-> r[k]]

\* const { password, ...safe } = user
Safe(r) == [k \in DOMAIN r \ {"password"} |-> r[k]]

\* coll.map(f) for a sequence
Map(coll, f(_)) == [i \in DOMAIN coll |-> f(coll[i])]

(***************************************************************************)
(* Credentials.  A bearer credential is absent, not of the Bearer scheme,  *)
(* a token jwt.verify rejects (bad signature, expired), or a token that    *)
(* verifies and carries the claims {id, role, email}.                      *)
(***************************************************************************)
Roles == {"customer", "driver", "partner", "admin"}

\* jwt.sign(payload, JWT_SECRET, {expiresIn})
signToken(payload) ==
    [kind |-> "valid", id |-> payload.id, role |-> payload.role, email |-> payload.email]

NoCred == [kind |-> "missing", id |-> Null, role |-> "none", email |-> ""]

ValidCreds ==
    {signToken([id |-> i, role |-> r, email |-> e]) :
        <<i, r, e>> \in {<<1, "customer", "a@x">>, <<2, "customer", "b@x">>,
                         <<1, "driver", "a@x">>, <<2, "driver", "b@x">>,
                         <<1, "partner", "a@x">>, <<2, "partner", "b@x">>,
                         <<1, "admin", "a@x">>}}

InvalidCreds ==
    { NoCred,
      [kind |-> "malformed", id |-> Null, role |-> "none", email |-> ""],
      [kind |-> "expired", id |-> 1, role |-> "customer", email |-> "a@x"],
      [kind |-> "badsig", id |-> 1, role |-> "admin", email |-> "a@x"] }

Creds == ValidCreds \cup InvalidCreds

Ids == 1..MaxId

\* requireAuth that does not look at the expiry of a well-signed token
requireAuthNoExpiry(cred) ==
    IF cred.kind \in {"missing", "malformed"} THEN "Authorization header missing or invalid"
    ELSE IF cred.kind \notin {"valid", "expired"} THEN "Invalid or expired token"
    ELSE "next"

\* requireAuth: the error it answers with, or "next" when it calls next()
requireAuth(cred) ==
    IF cred.kind \in {"missing", "malformed"} THEN "Authorization header missing or invalid"
    ELSE IF cred.kind # "valid" THEN "Invalid or expired token"
    ELSE "next"

\* a role check that lets an admin through
HasRoleOrAdmin(cred, role) == cred.role = role \/ cred.role = "admin"

\* req.user.role === role
HasRole(cred, role) == cred.role = role

\* an owner check that compares nothing
IsOwnerAnyone(owner, cred) == owner = owner

\* record.ownerField === req.user.id
IsOwner(owner, cred) == owner = cred.id

(***************************************************************************)
(* Requests and responses.                                                 *)
(***************************************************************************)
NoReq == [op |-> "none", cred |-> NoCred, id |-> Null]
NoResp == [status |-> 0, kind |-> "none", body |-> ""]

\* res.status(status).json(...) for the request (op, cred, id), taken by the
\* idle server
Reply(op, cred, id, status, kind, body) ==
    /\ req = NoReq
    /\ served < MaxRequests
    /\ UNCHANGED <<served, issued, accepted>>
    /\ req' = [op |-> op, cred |-> cred, id |-> id]
    /\ resp' = [status |-> status, kind |-> kind, body |-> body]

\* an early return: res.status(status).json({error}) with the store untouched
Fail(op, cred, id, status, error) ==
    /\ Reply(op, cred, id, status, "error", error)
    /\ UNCHANGED store

\* a handler that only reads: res.json(body)
Answer(op, cred, id, kind, body) ==
    /\ Reply(op, cred, id, 200, kind, body)
    /\ UNCHANGED store

\* getItemOr404's error text: `${collection.slice(0, -1)} not found`
NotFoundText(collection) ==
    CASE collection = "orders" -> "order not found"
      [] collection = "deliveries" -> "deliverie not found"
      [] collection = "rides" -> "ride not found"
      [] collection = "notifications" -> "notification not found"
      [] collection = "partners" -> "partner not found"

\* getItemOr404(collection, id, res): index of the item, 0 after a 404
getItemOr404(coll, id) == Find(coll, [id |-> id])

(***************************************************************************)
(* The store a run starts from: db.json as loaded by lowdb.  Accounts,     *)
(* a menu and notifications are seeded (no route creates customers,        *)
(* drivers, partners or notifications); orders, deliveries and rides are   *)
(* empty.                                                                  *)
(***************************************************************************)
Init ==
    /\ customers = << [id |-> 1, email |-> "a@x", password |-> "p1", name |-> "c1"],
                      [id |-> 2, email |-> "b@x", password |-> "p2", name |-> "c2"] >>
    /\ drivers = << [id |-> 1, email |-> "a@x", password |-> "p1", name |-> "d1"],
                    [id |-> 2, email |-> "b@x", password |-> "p2", name |-> "d2"] >>
    /\ partners = << [id |-> 1, email |-> "a@x", password |-> "p1", name |-> "r1",
                      address |-> "A1"],
                     [id |-> 2, email |-> "b@x", password |-> "p2", name |-> "r2",
                      address |-> "A2"] >>
    /\ admin = << [id |-> 1, email |-> "a@x", password |-> "p1"] >>
    /\ menu = << [id |-> 1, partnerId |-> 1, name |-> "m1", price |-> 10,
                  description |-> "", category |-> ""],
                 [id |-> 2, partnerId |-> 2, name |-> "m2", price |-> 7,
                  description |-> "", category |-> ""] >>
    /\ orders = << >>
    /\ deliveries = << >>
    /\ rides = << >>
    /\ notifications = << [id |-> 1, userId |-> 1, read |-> FALSE],
                          [id |-> 2, userId |-> 2, read |-> FALSE] >>
    /\ req = NoReq
    /\ resp = NoResp
    /\ served = 0
    /\ issued = [menu |-> {1, 2}, orders |-> {}, deliveries |-> {}, rides |-> {},
                 admin |-> {1}]
    /\ accepted = {}

(***************************************************************************)
(* Login, refresh and logout.                                              *)
(***************************************************************************)
\* const { email, password } = req.body: what a login request presents in
\* place of a bearer credential (undefined for a field the body lacks)
Presented(body) ==
    [kind |-> "password", id |-> Null, role |-> "none",
     email |-> Field(body, "email", "undefined"),
     password |-> Field(body, "password", "undefined")]

\* a login that finds the account by email and does not compare the password
LoginNoPasswordCheck(op, coll, role, body) ==
    LET email == Field(body, "email", "undefined")
        u == Find(coll, [email |-> email])
    IN  IF u = 0
        THEN Fail(op, Presented(body), Null, 401, "Invalid credentials")
        ELSE Answer(op, Presented(body), Null, "token",
                    signToken([id |-> coll[u].id, role |-> role, email |-> coll[u].email]))

\* the body common to the four login routes: find the account of the role's
\* collection by email, compare the password, sign {id, role, email}
Login(op, coll, role, body) ==
    LET email == Field(body, "email", "undefined")
        u == Find(coll, [email |-> email])
    IN  IF u = 0 \/ Field(coll[u], "password", "undefined") # Field(body, "password", "undefined")
        THEN Fail(op, Presented(body), Null, 401, "Invalid credentials")
        ELSE Answer(op, Presented(body), Null, "token",
                    signToken([id |-> coll[u].id, role |-> role, email |-> coll[u].email]))

CustomersLogin(body) == Login("POST /api/customers/login", customers, "customer", body)
DriversLogin(body) == Login("POST /api/drivers/login", drivers, "driver", body)
PartnersLogin(body) == Login("POST /api/partners/login", partners, "partner", body)
AdminLogin(body) == Login("POST /api/admin/login", admin, "admin", body)

\* a refresh that signs the role of the route called instead of the caller's
RefreshForRoute(op, cred) ==
    LET role == CASE op = "POST /api/customers/refresh-token" -> "customer"
                  [] op = "POST /api/drivers/refresh-token" -> "driver"
                  [] op = "POST /api/partners/refresh-token" -> "partner"
                  [] op = "POST /api/admin/refresh-token" -> "admin"
    IN  IF requireAuth(cred) # "next" THEN Fail(op, cred, Null, 401, requireAuth(cred))
        ELSE Answer(op, cred, Null, "token",
                    signToken([id |-> cred.id, role |-> role, email |-> cred.email]))

\* the body common to the four refresh routes: re-sign the presented claims
Refresh(op, cred) ==
    IF requireAuth(cred) # "next" THEN Fail(op, cred, Null, 401, requireAuth(cred))
    ELSE Answer(op, cred, Null, "token",
                signToken([id |-> cred.id, role |-> cred.role, email |-> cred.email]))

CustomersRefreshToken(cred) == Refresh("POST /api/customers/refresh-token", cred)
DriversRefreshToken(cred) == Refresh("POST /api/drivers/refresh-token", cred)
PartnersRefreshToken(cred) == Refresh("POST /api/partners/refresh-token", cred)
AdminRefreshToken(cred) == Refresh("POST /api/admin/refresh-token", cred)

\* the body common to the four logout routes
Logout(op, cred) ==
    IF requireAuth(cred) # "next" THEN Fail(op, cred, Null, 401, requireAuth(cred))
    ELSE Answer(op, cred, Null, "message", "Logout success")

CustomersLogout(cred) == Logout("POST /api/customers/logout", cred)
DriversLogout(cred) == Logout("POST /api/drivers/logout", cred)
PartnersLogout(cred) == Logout("POST /api/partners/logout", cred)
AdminLogout(cred) == Logout("POST /api/admin/logout", cred)

(***************************************************************************)
(* Customer profile.                                                       *)
(***************************************************************************)
CustomersProfileGet(cred) ==
    LET op == "GET /api/customers/profile"
        u == Find(customers, [id |-> cred.id])
    IN  IF requireAuth(cred) # "next" THEN Fail(op, cred, Null, 401, requireAuth(cred))
        ELSE IF ~HasRole(cred, "customer") THEN Fail(op, cred, Null, 403, "Forbidden")
        ELSE IF u = 0 THEN Fail(op, cred, Null, 404, "Customer not found")
        ELSE Answer(op, cred, Null, "record", Safe(customers[u]))

CustomersProfilePut(cred, body) ==
    LET op == "PUT /api/customers/profile"
    IN  IF requireAuth(cred) # "next" THEN Fail(op, cred, Null, 401, requireAuth(cred))
        ELSE IF ~HasRole(cred, "customer") THEN Fail(op, cred, Null, 403, "Forbidden")
        ELSE /\ customers' = FindAssign(customers, [id |-> cred.id], body)
             /\ UNCHANGED <<drivers, partners, admin, menu, orders, deliveries, rides,
                            notifications>>
             /\ Reply(op, cred, Null, 200, "message", "Profile updated")

CustomersProfilePassword(cred, body) ==
    LET op == "PUT /api/customers/profile/password"
        u == Find(customers, [id |-> cred.id])
    IN  IF requireAuth(cred) # "next" THEN Fail(op, cred, Null, 401, requireAuth(cred))
        ELSE IF ~HasRole(cred, "customer") THEN Fail(op, cred, Null, 403, "Forbidden")
        ELSE IF u = 0 \/ Field(customers[u], "password", "undefined")
                            # Field(body, "oldPassword", "undefined")
        THEN Fail(op, cred, Null, 400, "Old password mismatch")
        ELSE /\ customers' = FindAssign(customers, [id |-> cred.id],
                                 [password |-> Field(body, "newPassword", "undefined")])
             /\ UNCHANGED <<drivers, partners, admin, menu, orders, deliveries, rides,
                            notifications>>
             /\ Reply(op, cred, Null, 200, "message", "Password changed")

\* file: the URL of the stored upload, "" when the request carries no photo
CustomersProfilePhoto(cred, file) ==
    LET op == "POST /api/customers/profile/photo"
    IN  IF requireAuth(cred) # "next" THEN Fail(op, cred, Null, 401, requireAuth(cred))
        ELSE IF ~HasRole(cred, "customer") THEN Fail(op, cred, Null, 403, "Forbidden")
        ELSE IF file = "" THEN Fail(op, cred, Null, 400, "No photo uploaded")
        ELSE /\ customers' = FindAssign(customers, [id |-> cred.id], [photoUrl |-> file])
             /\ UNCHANGED <<drivers, partners, admin, menu, orders, deliveries, rides,
                            notifications>>
             /\ Reply(op, cred, Null, 200, "message", "Photo updated")

(***************************************************************************)
(* Restaurants (public).                                                   *)
(***************************************************************************)
RestaurantView(p) == Pick(p, {"id", "name", "address"})

CustomersRestaurants ==
    Answer("GET /api/customers/restaurants", NoCred, Null, "list",
           Map(partners, RestaurantView))

CustomersRestaurantDetail(id) ==
    LET op == "GET /api/customers/restaurants/:id"
        p == getItemOr404(partners, id)
    IN  IF p = 0 THEN Fail(op, NoCred, id, 404, NotFoundText("partners"))
        ELSE Answer(op, NoCred, id, "record",
                    Assign(RestaurantView(partners[p]),
                           [menu |-> Filter(menu, [partnerId |-> id])]))

(***************************************************************************)
(* Orders (customer).                                                      *)
(***************************************************************************)
\* price * qty and total += ..., NaN absorbing
Times(a, b) == IF a = NaN \/ b = NaN THEN NaN ELSE a * b
Plus(a, b) == IF a = NaN \/ b = NaN THEN NaN ELSE a + b

\* a line priced from the menu item of that id, whichever partner owns it
DetailedItemAnyPartner(it, partnerId) ==
    LET m == Find(menu, [id |-> it.menuId])
    IN  [menuId |-> it.menuId,
         name |-> IF m # 0 THEN Field(menu[m], "name", "undefined") ELSE "Unknown",
         qty |-> NumberOr0(Field(it, "quantity", NaN)),
         price |-> IF m # 0 THEN Field(menu[m], "price", NaN) ELSE 0]

\* one element of detailedItems
DetailedItem(it, partnerId) ==
    LET m == Find(menu, [id |-> it.menuId, partnerId |-> partnerId])
    IN  [menuId |-> it.menuId,
         name |-> IF m # 0 THEN Field(menu[m], "name", "undefined") ELSE "Unknown",
         qty |-> NumberOr0(Field(it, "quantity", NaN)),
         price |-> IF m # 0 THEN Field(menu[m], "price", NaN) ELSE 0]

RECURSIVE TotalOf(_)
TotalOf(items) ==
    IF items = << >> THEN 0
    ELSE Plus(TotalOf(SubSeq(items, 1, Len(items) - 1)),
              Times(items[Len(items)].price, items[Len(items)].qty))

\* the order record built by create-order (createdAt, a timestamp, left out)
NewOrder(cred, body) ==
    LET detailedItems == Map(body.items, LAMBDA it : DetailedItem(it, body.partnerId))
    IN  [id |-> NewId(orders),
         customerId |-> cred.id,
         partnerId |-> body.partnerId,
         items |-> detailedItems,
         total |-> TotalOf(detailedItems),
         status |-> "pending",
         deliveryAddress |-> Field(body, "deliveryAddress", "undefined"),
         paymentMethod |-> Field(body, "paymentMethod", "undefined")]

\* the address of the first partner of the collection, whatever its id
PickupAddressOfFirstPartner(partnerId) ==
    IF Len(partners) = 0 THEN "" ELSE Field(partners[1], "address", "")

\* the partner's address, "" when there is no such partner or address
PickupAddressOf(partnerId) ==
    LET p == Find(partners, [id |-> partnerId])
    IN  IF p = 0 THEN "" ELSE Field(partners[p], "address", "")

\* a delivery skeleton that takes its orderId from the orders collection after
\* the push instead of from the order just built
NewDeliveryNextOrder(order) ==
    [id |-> NewId(deliveries),
     orderId |-> order.id + 1,
     status |-> "ready",
     pickupAddress |-> PickupAddressOf(order.partnerId),
     dropAddress |-> order.deliveryAddress,
     driverId |-> Null]

\* the delivery skeleton pushed right after the order
NewDelivery(order) ==
    [id |-> NewId(deliveries),
     orderId |-> order.id,
     status |-> "ready",
     pickupAddress |-> PickupAddressOf(order.partnerId),
     dropAddress |-> order.deliveryAddress,
     driverId |-> Null]

CustomersOrdersCreate(cred, body) ==
    LET op == "POST /api/customers/orders"
    IN  IF requireAuth(cred) # "next" THEN Fail(op, cred, Null, 401, requireAuth(cred))
        ELSE IF ~HasRole(cred, "customer") THEN Fail(op, cred, Null, 403, "Forbidden")
        ELSE IF \/ Field(body, "partnerId", Null) = Null
                \/ Field(body, "items", << >>) = << >>
        THEN Fail(op, cred, Null, 400, "Invalid order body")
        ELSE /\ orders' = Append(orders, NewOrder(cred, body))
             /\ deliveries' = Append(deliveries, NewDelivery(NewOrder(cred, body)))
             /\ UNCHANGED <<customers, drivers, partners, admin, menu, rides, notifications>>
             /\ Reply(op, cred, Null, 200, "record",
                      Pick(NewOrder(cred, body),
                           {"id", "customerId", "partnerId", "total", "status"}))

\* the brief view of one order in the customer's list
OrderBrief(o) ==
    LET p == Find(partners, [id |-> o.partnerId])
    IN  [id |-> o.id,
         partnerName |-> IF p = 0 THEN "Partner" ELSE Field(partners[p], "name", "Partner"),
         total |-> o.total,
         status |-> o.status]

CustomersOrdersList(cred) ==
    LET op == "GET /api/customers/orders"
    IN  IF requireAuth(cred) # "next" THEN Fail(op, cred, Null, 401, requireAuth(cred))
        ELSE IF ~HasRole(cred, "customer") THEN Fail(op, cred, Null, 403, "Forbidden")
        ELSE Answer(op, cred, Null, "list",
                    Map(Filter(orders, [customerId |-> cred.id]), OrderBrief))

CustomersOrdersDetail(cred, id) ==
    LET op == "GET /api/customers/orders/:id"
        o == getItemOr404(orders, id)
    IN  IF requireAuth(cred) # "next" THEN Fail(op, cred, id, 401, requireAuth(cred))
        ELSE IF ~HasRole(cred, "customer") THEN Fail(op, cred, id, 403, "Forbidden")
        ELSE IF o = 0 THEN Fail(op, cred, id, 404, NotFoundText("orders"))
        ELSE IF ~IsOwner(orders[o].customerId, cred) THEN Fail(op, cred, id, 403, "Forbidden")
        ELSE Answer(op, cred, id, "record", orders[o])

\* cancel-order that writes the status before it checks the owner
CustomersOrdersCancelEager(cred, id) ==
    LET op == "POST /api/customers/orders/:id/cancel"
        o == getItemOr404(orders, id)
    IN  IF requireAuth(cred) # "next" THEN Fail(op, cred, id, 401, requireAuth(cred))
        ELSE IF ~HasRole(cred, "customer") THEN Fail(op, cred, id, 403, "Forbidden")
        ELSE IF o = 0 THEN Fail(op, cred, id, 404, NotFoundText("orders"))
        ELSE /\ orders' = FindAssign(orders, [id |-> id], [status |-> "cancelled"])
             /\ UNCHANGED <<customers, drivers, partners, admin, menu, deliveries, rides,
                            notifications>>
             /\ IF ~IsOwner(orders[o].customerId, cred)
                THEN Reply(op, cred, id, 403, "error", "Forbidden")
                ELSE Reply(op, cred, id, 200, "message", "Order cancelled")

CustomersOrdersCancel(cred, id) ==
    LET op == "POST /api/customers/orders/:id/cancel"
        o == getItemOr404(orders, id)
    IN  IF requireAuth(cred) # "next" THEN Fail(op, cred, id, 401, requireAuth(cred))
        ELSE IF ~HasRole(cred, "customer") THEN Fail(op, cred, id, 403, "Forbidden")
        ELSE IF o = 0 THEN Fail(op, cred, id, 404, NotFoundText("orders"))
        ELSE IF ~IsOwner(orders[o].customerId, cred) THEN Fail(op, cred, id, 403, "Forbidden")
        ELSE /\ orders' = FindAssign(orders, [id |-> id], [status |-> "cancelled"])
             /\ UNCHANGED <<customers, drivers, partners, admin, menu, deliveries, rides,
                            notifications>>
             /\ Reply(op, cred, id, 200, "message", "Order cancelled")

(***************************************************************************)
(* Rides (customer).                                                       *)
(***************************************************************************)
\* the ride record built by create-ride (createdAt left out); a location the
\* body does not carry is undefined and so absent from the stored record
NewRide(cred, body) ==
    Assign([id |-> NewId(rides), customerId |-> cred.id, status |-> "pending",
            driverId |-> Null],
           Pick(body, {"pickupLocation", "dropLocation", "vehicleType"}))

\* r.pickupLocation.address and r.dropLocation.address can be read
HasLocations(r) == {"pickupLocation", "dropLocation"} \subseteq DOMAIN r

\* the ride is pushed and written before the response reads
\* pickupLocation.address: a body without locations leaves the ride stored and
\* the request ends in Express's 500
CustomersRidesCreate(cred, body) ==
    LET op == "POST /api/customers/rides"
    IN  IF requireAuth(cred) # "next" THEN Fail(op, cred, Null, 401, requireAuth(cred))
        ELSE IF ~HasRole(cred, "customer") THEN Fail(op, cred, Null, 403, "Forbidden")
        ELSE /\ rides' = Append(rides, NewRide(cred, body))
             /\ UNCHANGED <<customers, drivers, partners, admin, menu, orders, deliveries,
                            notifications>>
             /\ IF HasLocations(NewRide(cred, body))
                THEN Reply(op, cred, Null, 200, "record",
                           Pick(NewRide(cred, body), {"id", "customerId", "status"}))
                ELSE Reply(op, cred, Null, 500, "error", "TypeError")

RideBrief(r) == Pick(r, {"id", "status", "driverId"})

CustomersRidesList(cred) ==
    LET op == "GET /api/customers/rides"
        list == Filter(rides, [customerId |-> cred.id])
    IN  IF requireAuth(cred) # "next" THEN Fail(op, cred, Null, 401, requireAuth(cred))
        ELSE IF ~HasRole(cred, "customer") THEN Fail(op, cred, Null, 403, "Forbidden")
        ELSE IF \E i \in DOMAIN list : ~HasLocations(list[i])
        THEN Fail(op, cred, Null, 500, "TypeError")
        ELSE Answer(op, cred, Null, "list", Map(list, RideBrief))

\* the detail view: driver identity once bound
RideDetailView(r) ==
    LET d == IF r.driverId # Null THEN Find(drivers, [id |-> r.driverId]) ELSE 0
    IN  [id |-> r.id, status |-> r.status,
         driver |-> IF d # 0 THEN drivers[d].id ELSE Null]

CustomersRidesDetail(cred, id) ==
    LET op == "GET /api/customers/rides/:id"
        r == getItemOr404(rides, id)
    IN  IF requireAuth(cred) # "next" THEN Fail(op, cred, id, 401, requireAuth(cred))
        ELSE IF ~HasRole(cred, "customer") THEN Fail(op, cred, id, 403, "Forbidden")
        ELSE IF r = 0 THEN Fail(op, cred, id, 404, NotFoundText("rides"))
        ELSE IF ~IsOwner(rides[r].customerId, cred) THEN Fail(op, cred, id, 403, "Forbidden")
        ELSE IF ~HasLocations(rides[r]) THEN Fail(op, cred, id, 500, "TypeError")
        ELSE Answer(op, cred, id, "record", RideDetailView(rides[r]))

CustomersRidesCancel(cred, id) ==
    LET op == "POST /api/customers/rides/:id/cancel"
        r == getItemOr404(rides, id)
    IN  IF requireAuth(cred) # "next" THEN Fail(op, cred, id, 401, requireAuth(cred))
        ELSE IF ~HasRole(cred, "customer") THEN Fail(op, cred, id, 403, "Forbidden")
        ELSE IF r = 0 THEN Fail(op, cred, id, 404, NotFoundText("rides"))
        ELSE IF ~IsOwner(rides[r].customerId, cred) THEN Fail(op, cred, id, 403, "Forbidden")
        ELSE /\ rides' = FindAssign(rides, [id |-> id], [status |-> "cancelled"])
             /\ UNCHANGED <<customers, drivers, partners, admin, menu, orders, deliveries,
                            notifications>>
             /\ Reply(op, cred, id, 200, "message", "Ride cancelled")

(***************************************************************************)
(* Notifications.                                                          *)
(***************************************************************************)
CustomersNotificationsList(cred) ==
    LET op == "GET /api/customers/notifications"
    IN  IF requireAuth(cred) # "next" THEN Fail(op, cred, Null, 401, requireAuth(cred))
        ELSE IF ~HasRole(cred, "customer") THEN Fail(op, cred, Null, 403, "Forbidden")
        ELSE Answer(op, cred, Null, "list", Filter(notifications, [userId |-> cred.id]))

CustomersNotificationsRead(cred, id) ==
    LET op == "POST /api/customers/notifications/:id/read"
        n == getItemOr404(notifications, id)
    IN  IF requireAuth(cred) # "next" THEN Fail(op, cred, id, 401, requireAuth(cred))
        ELSE IF ~HasRole(cred, "customer") THEN Fail(op, cred, id, 403, "Forbidden")
        ELSE IF n = 0 THEN Fail(op, cred, id, 404, NotFoundText("notifications"))
        ELSE IF ~IsOwner(notifications[n].userId, cred)
        THEN Fail(op, cred, id, 403, "Forbidden")
        ELSE /\ notifications' = FindAssign(notifications, [id |-> id], [read |-> TRUE])
             /\ UNCHANGED <<customers, drivers, partners, admin, menu, orders, deliveries,
                            rides>>
             /\ Reply(op, cred, id, 200, "message", "Notification marked as read")

(***************************************************************************)
(* Driver profile and status.                                              *)
(***************************************************************************)
DriversProfileGet(cred) ==
    LET op == "GET /api/drivers/profile"
        u == Find(drivers, [id |-> cred.id])
    IN  IF requireAuth(cred) # "next" THEN Fail(op, cred, Null, 401, requireAuth(cred))
        ELSE IF ~HasRole(cred, "driver") THEN Fail(op, cred, Null, 403, "Forbidden")
        ELSE IF u = 0 THEN Fail(op, cred, Null, 404, "Driver not found")
        ELSE Answer(op, cred, Null, "record", Safe(drivers[u]))

DriversProfilePut(cred, body) ==
    LET op == "PUT /api/drivers/profile"
    IN  IF requireAuth(cred) # "next" THEN Fail(op, cred, Null, 401, requireAuth(cred))
        ELSE IF ~HasRole(cred, "driver") THEN Fail(op, cred, Null, 403, "Forbidden")
        ELSE /\ drivers' = FindAssign(drivers, [id |-> cred.id], body)
             /\ UNCHANGED <<customers, partners, admin, menu, orders, deliveries, rides,
                            notifications>>
             /\ Reply(op, cred, Null, 200, "message", "Profile updated")

DriversProfilePassword(cred, body) ==
    LET op == "PUT /api/drivers/profile/password"
        u == Find(drivers, [id |-> cred.id])
    IN  IF requireAuth(cred) # "next" THEN Fail(op, cred, Null, 401, requireAuth(cred))
        ELSE IF ~HasRole(cred, "driver") THEN Fail(op, cred, Null, 403, "Forbidden")
        ELSE IF u = 0 \/ Field(drivers[u], "password", "undefined")
                            # Field(body, "oldPassword", "undefined")
        THEN Fail(op, cred, Null, 400, "Old password mismatch")
        ELSE /\ drivers' = FindAssign(drivers, [id |-> cred.id],
                               [password |-> Field(body, "newPassword", "undefined")])
             /\ UNCHANGED <<customers, partners, admin, menu, orders, deliveries, rides,
                            notifications>>
             /\ Reply(op, cred, Null, 200, "message", "Password changed")

DriversProfileStatus(cred, available) ==
    LET op == "POST /api/drivers/profile/status"
    IN  IF requireAuth(cred) # "next" THEN Fail(op, cred, Null, 401, requireAuth(cred))
        ELSE IF ~HasRole(cred, "driver") THEN Fail(op, cred, Null, 403, "Forbidden")
        ELSE /\ drivers' = FindAssign(drivers, [id |-> cred.id],
                               [status |-> IF available THEN "available" ELSE "unavailable"])
             /\ UNCHANGED <<customers, partners, admin, menu, orders, deliveries, rides,
                            notifications>>
             /\ Reply(op, cred, Null, 200, "message", "Status updated")

(***************************************************************************)
(* Deliveries (driver).                                                    *)
(***************************************************************************)
\* a delivery list that shows every assigned delivery, whoever the driver is
DriversDeliveriesListAssigned(cred) ==
    LET op == "GET /api/drivers/deliveries"
    IN  IF requireAuth(cred) # "next" THEN Fail(op, cred, Null, 401, requireAuth(cred))
        ELSE IF ~HasRole(cred, "driver") THEN Fail(op, cred, Null, 403, "Forbidden")
        ELSE Answer(op, cred, Null, "list",
                    SelectSeq(deliveries,
                              LAMBDA d : d.status = "ready" \/ d.driverId # Null))

DriversDeliveriesList(cred) ==
    LET op == "GET /api/drivers/deliveries"
    IN  IF requireAuth(cred) # "next" THEN Fail(op, cred, Null, 401, requireAuth(cred))
        ELSE IF ~HasRole(cred, "driver") THEN Fail(op, cred, Null, 403, "Forbidden")
        ELSE Answer(op, cred, Null, "list",
                    SelectSeq(deliveries,
                              LAMBDA d : d.status = "ready" \/ d.driverId = cred.id))

DriversDeliveriesDetail(cred, id) ==
    LET op == "GET /api/drivers/deliveries/:id"
        d == getItemOr404(deliveries, id)
    IN  IF requireAuth(cred) # "next" THEN Fail(op, cred, id, 401, requireAuth(cred))
        ELSE IF ~HasRole(cred, "driver") THEN Fail(op, cred, id, 403, "Forbidden")
        ELSE IF d = 0 THEN Fail(op, cred, id, 404, NotFoundText("deliveries"))
        ELSE Answer(op, cred, id, "record", deliveries[d])

\* an accept that refuses a delivery some driver has already accepted
DriversDeliveriesAcceptOnce(cred, id) ==
    LET op == "POST /api/drivers/deliveries/:id/accept"
        d == getItemOr404(deliveries, id)
    IN  IF requireAuth(cred) # "next" THEN Fail(op, cred, id, 401, requireAuth(cred))
        ELSE IF ~HasRole(cred, "driver") THEN Fail(op, cred, id, 403, "Forbidden")
        ELSE IF d = 0 THEN Fail(op, cred, id, 404, NotFoundText("deliveries"))
        ELSE IF deliveries[d].driverId # Null THEN Fail(op, cred, id, 409, "Already accepted")
        ELSE /\ deliveries' = FindAssign(deliveries, [id |-> id],
                                  [status |-> "accepted", driverId |-> cred.id])
             /\ UNCHANGED <<customers, drivers, partners, admin, menu, orders, rides,
                            notifications>>
             /\ Reply(op, cred, id, 200, "message", "Delivery accepted")

DriversDeliveriesAccept(cred, id) ==
    LET op == "POST /api/drivers/deliveries/:id/accept"
        d == getItemOr404(deliveries, id)
    IN  IF requireAuth(cred) # "next" THEN Fail(op, cred, id, 401, requireAuth(cred))
        ELSE IF ~HasRole(cred, "driver") THEN Fail(op, cred, id, 403, "Forbidden")
        ELSE IF d = 0 THEN Fail(op, cred, id, 404, NotFoundText("deliveries"))
        ELSE /\ deliveries' = FindAssign(deliveries, [id |-> id],
                                  [status |-> "accepted", driverId |-> cred.id])
             /\ UNCHANGED <<customers, drivers, partners, admin, menu, orders, rides,
                            notifications>>
             /\ Reply(op, cred, id, 200, "message", "Delivery accepted")

\* a reject that also takes the delivery away from its driver
DriversDeliveriesRejectUnassigns(cred, id, reason) ==
    LET op == "POST /api/drivers/deliveries/:id/reject"
        d == getItemOr404(deliveries, id)
    IN  IF requireAuth(cred) # "next" THEN Fail(op, cred, id, 401, requireAuth(cred))
        ELSE IF ~HasRole(cred, "driver") THEN Fail(op, cred, id, 403, "Forbidden")
        ELSE IF d = 0 THEN Fail(op, cred, id, 404, NotFoundText("deliveries"))
        ELSE /\ deliveries' = FindAssign(deliveries, [id |-> id],
                                  [status |-> "rejected", driverId |-> Null,
                                   rejectReason |-> IF reason = "" THEN "null" ELSE reason])
             /\ UNCHANGED <<customers, drivers, partners, admin, menu, orders, rides,
                            notifications>>
             /\ Reply(op, cred, id, 200, "message", "Delivery rejected")

\* reason: the body's reason, "" when absent or empty (reason || null)
DriversDeliveriesReject(cred, id, reason) ==
    LET op == "POST /api/drivers/deliveries/:id/reject"
        d == getItemOr404(deliveries, id)
    IN  IF requireAuth(cred) # "next" THEN Fail(op, cred, id, 401, requireAuth(cred))
        ELSE IF ~HasRole(cred, "driver") THEN Fail(op, cred, id, 403, "Forbidden")
        ELSE IF d = 0 THEN Fail(op, cred, id, 404, NotFoundText("deliveries"))
        ELSE /\ deliveries' = FindAssign(deliveries, [id |-> id],
                                  [status |-> "rejected",
                                   rejectReason |-> IF reason = "" THEN "null" ELSE reason])
             /\ UNCHANGED <<customers, drivers, partners, admin, menu, orders, rides,
                            notifications>>
             /\ Reply(op, cred, id, 200, "message", "Delivery rejected")

\* no getItemOr404 here: the update is applied to whatever find returns
DriversDeliveriesStart(cred, id) ==
    LET op == "POST /api/drivers/deliveries/:id/start"
    IN  IF requireAuth(cred) # "next" THEN Fail(op, cred, id, 401, requireAuth(cred))
        ELSE IF ~HasRole(cred, "driver") THEN Fail(op, cred, id, 403, "Forbidden")
        ELSE /\ deliveries' = FindAssign(deliveries, [id |-> id], [status |-> "ongoing"])
             /\ UNCHANGED <<customers, drivers, partners, admin, menu, orders, rides,
                            notifications>>
             /\ Reply(op, cred, id, 200, "message", "Delivery started")

DriversDeliveriesComplete(cred, id, collectedAmount) ==
    LET op == "POST /api/drivers/deliveries/:id/complete"
    IN  IF requireAuth(cred) # "next" THEN Fail(op, cred, id, 401, requireAuth(cred))
        ELSE IF ~HasRole(cred, "driver") THEN Fail(op, cred, id, 403, "Forbidden")
        ELSE /\ deliveries' = FindAssign(deliveries, [id |-> id],
                                  [status |-> "completed",
                                   collectedAmount |-> NumberOr0(collectedAmount)])
             /\ UNCHANGED <<customers, drivers, partners, admin, menu, orders, rides,
                            notifications>>
             /\ Reply(op, cred, id, 200, "message", "Delivery completed")

(***************************************************************************)
(* Rides (driver).                                                         *)
(***************************************************************************)
\* a ride list that keeps showing the rides under way
DriversRidesListUnderWay(cred) ==
    LET op == "GET /api/drivers/rides"
    IN  IF requireAuth(cred) # "next" THEN Fail(op, cred, Null, 401, requireAuth(cred))
        ELSE IF ~HasRole(cred, "driver") THEN Fail(op, cred, Null, 403, "Forbidden")
        ELSE Answer(op, cred, Null, "list",
                    SelectSeq(rides, LAMBDA r : r.status \in {"pending", "ongoing"}))

DriversRidesList(cred) ==
    LET op == "GET /api/drivers/rides"
    IN  IF requireAuth(cred) # "next" THEN Fail(op, cred, Null, 401, requireAuth(cred))
        ELSE IF ~HasRole(cred, "driver") THEN Fail(op, cred, Null, 403, "Forbidden")
        ELSE Answer(op, cred, Null, "list", Filter(rides, [status |-> "pending"]))

DriversRidesAccept(cred, id) ==
    LET op == "POST /api/drivers/rides/:id/accept"
        r == getItemOr404(rides, id)
    IN  IF requireAuth(cred) # "next" THEN Fail(op, cred, id, 401, requireAuth(cred))
        ELSE IF ~HasRole(cred, "driver") THEN Fail(op, cred, id, 403, "Forbidden")
        ELSE IF r = 0 THEN Fail(op, cred, id, 404, NotFoundText("rides"))
        ELSE /\ rides' = FindAssign(rides, [id |-> id],
                             [status |-> "ongoing", driverId |-> cred.id])
             /\ UNCHANGED <<customers, drivers, partners, admin, menu, orders, deliveries,
                            notifications>>
             /\ Reply(op, cred, id, 200, "message", "Ride accepted")

DriversRidesReject(cred, id, reason) ==
    LET op == "POST /api/drivers/rides/:id/reject"
    IN  IF requireAuth(cred) # "next" THEN Fail(op, cred, id, 401, requireAuth(cred))
        ELSE IF ~HasRole(cred, "driver") THEN Fail(op, cred, id, 403, "Forbidden")
        ELSE /\ rides' = FindAssign(rides, [id |-> id],
                             [status |-> "rejected",
                              rejectReason |-> IF reason = "" THEN "null" ELSE reason])
             /\ UNCHANGED <<customers, drivers, partners, admin, menu, orders, deliveries,
                            notifications>>
             /\ Reply(op, cred, id, 200, "message", "Ride rejected")

DriversRidesStart(cred, id) ==
    LET op == "POST /api/drivers/rides/:id/start"
    IN  IF requireAuth(cred) # "next" THEN Fail(op, cred, id, 401, requireAuth(cred))
        ELSE IF ~HasRole(cred, "driver") THEN Fail(op, cred, id, 403, "Forbidden")
        ELSE /\ rides' = FindAssign(rides, [id |-> id], [status |-> "ongoing"])
             /\ UNCHANGED <<customers, drivers, partners, admin, menu, orders, deliveries,
                            notifications>>
             /\ Reply(op, cred, id, 200, "message", "Ride started")

DriversRidesComplete(cred, id, fareCollected) ==
    LET op == "POST /api/drivers/rides/:id/complete"
    IN  IF requireAuth(cred) # "next" THEN Fail(op, cred, id, 401, requireAuth(cred))
        ELSE IF ~HasRole(cred, "driver") THEN Fail(op, cred, id, 403, "Forbidden")
        ELSE /\ rides' = FindAssign(rides, [id |-> id],
                             [status |-> "completed",
                              fareCollected |-> NumberOr0(fareCollected)])
             /\ UNCHANGED <<customers, drivers, partners, admin, menu, orders, deliveries,
                            notifications>>
             /\ Reply(op, cred, id, 200, "message", "Ride completed")

(***************************************************************************)
(* Partner profile.                                                        *)
(***************************************************************************)
PartnersProfileGet(cred) ==
    LET op == "GET /api/partners/profile"
        u == Find(partners, [id |-> cred.id])
    IN  IF requireAuth(cred) # "next" THEN Fail(op, cred, Null, 401, requireAuth(cred))
        ELSE IF ~HasRole(cred, "partner") THEN Fail(op, cred, Null, 403, "Forbidden")
        ELSE IF u = 0 THEN Fail(op, cred, Null, 404, "Partner not found")
        ELSE Answer(op, cred, Null, "record", Safe(partners[u]))

PartnersProfilePut(cred, body) ==
    LET op == "PUT /api/partners/profile"
    IN  IF requireAuth(cred) # "next" THEN Fail(op, cred, Null, 401, requireAuth(cred))
        ELSE IF ~HasRole(cred, "partner") THEN Fail(op, cred, Null, 403, "Forbidden")
        ELSE /\ partners' = FindAssign(partners, [id |-> cred.id], body)
             /\ UNCHANGED <<customers, drivers, admin, menu, orders, deliveries, rides,
                            notifications>>
             /\ Reply(op, cred, Null, 200, "message", "Profile updated")

PartnersProfilePassword(cred, body) ==
    LET op == "PUT /api/partners/profile/password"
        u == Find(partners, [id |-> cred.id])
    IN  IF requireAuth(cred) # "next" THEN Fail(op, cred, Null, 401, requireAuth(cred))
        ELSE IF ~HasRole(cred, "partner") THEN Fail(op, cred, Null, 403, "Forbidden")
        ELSE IF u = 0 \/ Field(partners[u], "password", "undefined")
                            # Field(body, "oldPassword", "undefined")
        THEN Fail(op, cred, Null, 400, "Old password mismatch")
        ELSE /\ partners' = FindAssign(partners, [id |-> cred.id],
                                [password |-> Field(body, "newPassword", "undefined")])
             /\ UNCHANGED <<customers, drivers, admin, menu, orders, deliveries, rides,
                            notifications>>
             /\ Reply(op, cred, Null, 200, "message", "Password changed")

PartnersProfileLogo(cred, file) ==
    LET op == "POST /api/partners/profile/logo"
    IN  IF requireAuth(cred) # "next" THEN Fail(op, cred, Null, 401, requireAuth(cred))
        ELSE IF ~HasRole(cred, "partner") THEN Fail(op, cred, Null, 403, "Forbidden")
        ELSE IF file = "" THEN Fail(op, cred, Null, 400, "No logo uploaded")
        ELSE /\ partners' = FindAssign(partners, [id |-> cred.id], [logoUrl |-> file])
             /\ UNCHANGED <<customers, drivers, admin, menu, orders, deliveries, rides,
                            notifications>>
             /\ Reply(op, cred, Null, 200, "message", "Logo updated")

(***************************************************************************)
(* Partner menu.                                                           *)
(***************************************************************************)
PartnersMenuList(cred) ==
    LET op == "GET /api/partners/menu"
    IN  IF requireAuth(cred) # "next" THEN Fail(op, cred, Null, 401, requireAuth(cred))
        ELSE IF ~HasRole(cred, "partner") THEN Fail(op, cred, Null, 403, "Forbidden")
        ELSE Answer(op, cred, Null, "list", Filter(menu, [partnerId |-> cred.id]))

\* the item built by add-menu; a name the body does not carry is undefined
NewMenuItem(cred, body) ==
    Assign(Pick(body, {"name"}),
           [id |-> NewId(menu),
            price |-> NumberOr0(Field(body, "price", NaN)),
            description |-> Field(body, "description", ""),
            category |-> Field(body, "category", ""),
            partnerId |-> cred.id])

PartnersMenuAdd(cred, body) ==
    LET op == "POST /api/partners/menu"
    IN  IF requireAuth(cred) # "next" THEN Fail(op, cred, Null, 401, requireAuth(cred))
        ELSE IF ~HasRole(cred, "partner") THEN Fail(op, cred, Null, 403, "Forbidden")
        ELSE /\ menu' = Append(menu, NewMenuItem(cred, body))
             /\ UNCHANGED <<customers, drivers, partners, admin, orders, deliveries, rides,
                            notifications>>
             /\ Reply(op, cred, Null, 200, "record",
                      Pick(NewMenuItem(cred, body), {"id", "name", "price", "partnerId"}))

\* a menu update that carries a new price into the lines of stored orders
PartnersMenuUpdateRepricing(cred, menuId, body) ==
    LET op == "PUT /api/partners/menu/:menuId"
        Repriced(o) ==
            [o EXCEPT !.items =
                [k \in DOMAIN o.items |->
                    IF o.items[k].menuId = menuId /\ "price" \in DOMAIN body
                    THEN [o.items[k] EXCEPT !.price = body.price]
                    ELSE o.items[k]]]
    IN  IF requireAuth(cred) # "next" THEN Fail(op, cred, menuId, 401, requireAuth(cred))
        ELSE IF ~HasRole(cred, "partner") THEN Fail(op, cred, menuId, 403, "Forbidden")
        ELSE IF Find(menu, [id |-> menuId, partnerId |-> cred.id]) = 0
        THEN Fail(op, cred, menuId, 404, "Menu not found")
        ELSE /\ menu' = FindAssign(menu, [id |-> menuId], body)
             /\ orders' = [i \in DOMAIN orders |-> Repriced(orders[i])]
             /\ UNCHANGED <<customers, drivers, partners, admin, deliveries, rides,
                            notifications>>
             /\ Reply(op, cred, menuId, 200, "message", "Menu updated")

\* found by (id, partnerId), then updated by id alone
PartnersMenuUpdate(cred, menuId, body) ==
    LET op == "PUT /api/partners/menu/:menuId"
    IN  IF requireAuth(cred) # "next" THEN Fail(op, cred, menuId, 401, requireAuth(cred))
        ELSE IF ~HasRole(cred, "partner") THEN Fail(op, cred, menuId, 403, "Forbidden")
        ELSE IF Find(menu, [id |-> menuId, partnerId |-> cred.id]) = 0
        THEN Fail(op, cred, menuId, 404, "Menu not found")
        ELSE /\ menu' = FindAssign(menu, [id |-> menuId], body)
             /\ UNCHANGED <<customers, drivers, partners, admin, orders, deliveries, rides,
                            notifications>>
             /\ Reply(op, cred, menuId, 200, "message", "Menu updated")

\* found by (id, partnerId), then removed by id alone
PartnersMenuDelete(cred, menuId) ==
    LET op == "DELETE /api/partners/menu/:menuId"
    IN  IF requireAuth(cred) # "next" THEN Fail(op, cred, menuId, 401, requireAuth(cred))
        ELSE IF ~HasRole(cred, "partner") THEN Fail(op, cred, menuId, 403, "Forbidden")
        ELSE IF Find(menu, [id |-> menuId, partnerId |-> cred.id]) = 0
        THEN Fail(op, cred, menuId, 404, "Menu not found")
        ELSE /\ menu' = Remove(menu, [id |-> menuId])
             /\ UNCHANGED <<customers, drivers, partners, admin, orders, deliveries, rides,
                            notifications>>
             /\ Reply(op, cred, menuId, 200, "message", "Menu deleted")

(***************************************************************************)
(* Orders (partner).                                                       *)
(***************************************************************************)
IncomingView(o) == Pick(o, {"id", "customerId", "total", "status"})

PartnersOrdersIncoming(cred) ==
    LET op == "GET /api/partners/orders/incoming"
    IN  IF requireAuth(cred) # "next" THEN Fail(op, cred, Null, 401, requireAuth(cred))
        ELSE IF ~HasRole(cred, "partner") THEN Fail(op, cred, Null, 403, "Forbidden")
        ELSE Answer(op, cred, Null, "list",
                    Map(Filter(orders, [partnerId |-> cred.id]), IncomingView))

PartnersOrdersDetail(cred, id) ==
    LET op == "GET /api/partners/orders/:orderId"
        o == getItemOr404(orders, id)
    IN  IF requireAuth(cred) # "next" THEN Fail(op, cred, id, 401, requireAuth(cred))
        ELSE IF ~HasRole(cred, "partner") THEN Fail(op, cred, id, 403, "Forbidden")
        ELSE IF o = 0 THEN Fail(op, cred, id, 404, NotFoundText("orders"))
        ELSE IF ~IsOwner(orders[o].partnerId, cred) THEN Fail(op, cred, id, 403, "Forbidden")
        ELSE Answer(op, cred, id, "record", orders[o])

PartnersOrdersAccept(cred, id) ==
    LET op == "POST /api/partners/orders/:orderId/accept"
        o == getItemOr404(orders, id)
    IN  IF requireAuth(cred) # "next" THEN Fail(op, cred, id, 401, requireAuth(cred))
        ELSE IF ~HasRole(cred, "partner") THEN Fail(op, cred, id, 403, "Forbidden")
        ELSE IF o = 0 THEN Fail(op, cred, id, 404, NotFoundText("orders"))
        ELSE IF ~IsOwner(orders[o].partnerId, cred) THEN Fail(op, cred, id, 403, "Forbidden")
        ELSE /\ orders' = FindAssign(orders, [id |-> id], [status |-> "accepted"])
             /\ UNCHANGED <<customers, drivers, partners, admin, menu, deliveries, rides,
                            notifications>>
             /\ Reply(op, cred, id, 200, "message", "Order accepted")

\* a reject that carries the rejection over to the order's delivery
PartnersOrdersRejectCascading(cred, id, reason) ==
    LET op == "POST /api/partners/orders/:orderId/reject"
        o == getItemOr404(orders, id)
    IN  IF requireAuth(cred) # "next" THEN Fail(op, cred, id, 401, requireAuth(cred))
        ELSE IF ~HasRole(cred, "partner") THEN Fail(op, cred, id, 403, "Forbidden")
        ELSE IF o = 0 THEN Fail(op, cred, id, 404, NotFoundText("orders"))
        ELSE IF ~IsOwner(orders[o].partnerId, cred) THEN Fail(op, cred, id, 403, "Forbidden")
        ELSE /\ orders' = FindAssign(orders, [id |-> id],
                              [status |-> "rejected",
                               rejectReason |-> IF reason = "" THEN "null" ELSE reason])
             /\ deliveries' = FindAssign(deliveries, [orderId |-> id],
                                  [status |-> "rejected"])
             /\ UNCHANGED <<customers, drivers, partners, admin, menu, rides,
                            notifications>>
             /\ Reply(op, cred, id, 200, "message", "Order rejected")

PartnersOrdersReject(cred, id, reason) ==
    LET op == "POST /api/partners/orders/:orderId/reject"
        o == getItemOr404(orders, id)
    IN  IF requireAuth(cred) # "next" THEN Fail(op, cred, id, 401, requireAuth(cred))
        ELSE IF ~HasRole(cred, "partner") THEN Fail(op, cred, id, 403, "Forbidden")
        ELSE IF o = 0 THEN Fail(op, cred, id, 404, NotFoundText("orders"))
        ELSE IF ~IsOwner(orders[o].partnerId, cred) THEN Fail(op, cred, id, 403, "Forbidden")
        ELSE /\ orders' = FindAssign(orders, [id |-> id],
                              [status |-> "rejected",
                               rejectReason |-> IF reason = "" THEN "null" ELSE reason])
             /\ UNCHANGED <<customers, drivers, partners, admin, menu, deliveries, rides,
                            notifications>>
             /\ Reply(op, cred, id, 200, "message", "Order rejected")

PartnersOrdersReady(cred, id) ==
    LET op == "POST /api/partners/orders/:orderId/ready"
        o == getItemOr404(orders, id)
    IN  IF requireAuth(cred) # "next" THEN Fail(op, cred, id, 401, requireAuth(cred))
        ELSE IF ~HasRole(cred, "partner") THEN Fail(op, cred, id, 403, "Forbidden")
        ELSE IF o = 0 THEN Fail(op, cred, id, 404, NotFoundText("orders"))
        ELSE IF ~IsOwner(orders[o].partnerId, cred) THEN Fail(op, cred, id, 403, "Forbidden")
        ELSE /\ orders' = FindAssign(orders, [id |-> id], [status |-> "ready"])
             /\ UNCHANGED <<customers, drivers, partners, admin, menu, deliveries, rides,
                            notifications>>
             /\ Reply(op, cred, id, 200, "message", "Order ready")

(***************************************************************************)
(* Admin.                                                                  *)
(***************************************************************************)
\* falsy email or password ("" or absent) is refused; the body itself, with
\* its id overwritten, is the stored record
AdminRegister(body) ==
    LET op == "POST /api/admin/register"
    IN  IF Field(body, "email", "") = "" \/ Field(body, "password", "") = ""
        THEN Fail(op, NoCred, Null, 400, "Missing fields")
        ELSE /\ admin' = Append(admin, Assign(body, [id |-> NewId(admin)]))
             /\ UNCHANGED <<customers, drivers, partners, menu, orders, deliveries, rides,
                            notifications>>
             /\ Reply(op, NoCred, Null, 200, "record",
                      Safe(Assign(body, [id |-> NewId(admin)])))

AdminDashboard(cred) ==
    LET op == "GET /api/admin/dashboard"
    IN  IF requireAuth(cred) # "next" THEN Fail(op, cred, Null, 401, requireAuth(cred))
        ELSE IF ~HasRole(cred, "admin") THEN Fail(op, cred, Null, 403, "Forbidden")
        ELSE Answer(op, cred, Null, "record",
                    [customers |-> Len(customers), drivers |-> Len(drivers),
                     partners |-> Len(partners), orders |-> Len(orders),
                     rides |-> Len(rides)])

\* the five admin list routes: a projection of one collection
AdminList(op, cred, coll, fields) ==
    IF requireAuth(cred) # "next" THEN Fail(op, cred, Null, 401, requireAuth(cred))
    ELSE IF ~HasRole(cred, "admin") THEN Fail(op, cred, Null, 403, "Forbidden")
    ELSE Answer(op, cred, Null, "list", Map(coll, LAMBDA r : Pick(r, fields)))

AdminCustomers(cred) ==
    AdminList("GET /api/admin/customers", cred, customers, {"id", "name", "email"})
AdminDrivers(cred) ==
    AdminList("GET /api/admin/drivers", cred, drivers, {"id", "name", "vehicle"})
AdminPartners(cred) ==
    AdminList("GET /api/admin/partners", cred, partners, {"id", "name", "address"})
AdminOrders(cred) ==
    IF requireAuth(cred) # "next"
    THEN Fail("GET /api/admin/orders", cred, Null, 401, requireAuth(cred))
    ELSE IF ~HasRole(cred, "admin") THEN Fail("GET /api/admin/orders", cred, Null, 403, "Forbidden")
    ELSE Answer("GET /api/admin/orders", cred, Null, "list", orders)
AdminRides(cred) ==
    IF requireAuth(cred) # "next"
    THEN Fail("GET /api/admin/rides", cred, Null, 401, requireAuth(cred))
    ELSE IF ~HasRole(cred, "admin") THEN Fail("GET /api/admin/rides", cred, Null, 403, "Forbidden")
    ELSE Answer("GET /api/admin/rides", cred, Null, "list", rides)

(***************************************************************************)
(* Public information routes.                                              *)
(***************************************************************************)
Root == Answer("GET /", NoCred, Null, "message", "Hello from Express on Vercel")
ApiInfo == Answer("GET /api", NoCred, Null, "message", "Pidie Ride Mock API")
ApiStatus == Answer("GET /api/status", NoCred, Null, "message", "OK")

(***************************************************************************)
(* Request payloads the clients send.                                      *)
(***************************************************************************)
LoginBodies ==
    { [email |-> "a@x", password |-> "p1"], [email |-> "a@x", password |-> "p2"],
      [email |-> "b@x", password |-> "p2"], [email |-> "zz", password |-> "p1"],
      [password |-> "p1"] }

ProfileBodies ==
    { [name |-> "n"], [address |-> "B"], [id |-> 2], [password |-> "p3"] }

PasswordBodies ==
    { [oldPassword |-> "p1", newPassword |-> "p3"],
      [oldPassword |-> "p2", newPassword |-> "p1"],
      [newPassword |-> "p3"] }

Files == {"", "u1"}

OrderBodies ==
    { [partnerId |-> 1, items |-> << [menuId |-> 1, quantity |-> 2] >>,
       deliveryAddress |-> "X", paymentMethod |-> "cash"],
      [partnerId |-> 2, items |-> << [menuId |-> 1, quantity |-> 1],
                                     [menuId |-> 2, quantity |-> 3] >>,
       deliveryAddress |-> "Y", paymentMethod |-> "cash"],
      [partnerId |-> 3, items |-> << [menuId |-> 2] >>],
      [partnerId |-> 1, items |-> << >>, deliveryAddress |-> "X"],
      [partnerId |-> 1, deliveryAddress |-> "X"],
      [items |-> << [menuId |-> 1, quantity |-> 2] >>, deliveryAddress |-> "X"] }

RideBodies ==
    { [pickupLocation |-> [address |-> "P"], dropLocation |-> [address |-> "Q"],
       vehicleType |-> "car"],
      [vehicleType |-> "car"] }

Reasons == {"", "busy"}

Amounts == {NaN, 5}

MenuBodies == { [name |-> "m3", price |-> 4], [description |-> "d"] }

MenuUpdateBodies == { [price |-> 12], [name |-> "mx"], [partnerId |-> 2], [id |-> 1] }

AdminBodies == { [email |-> "c@x", password |-> "p1", name |-> "root"], [email |-> "c@x"] }

(***************************************************************************)
(* The server: idle between requests, it serves one request to completion  *)
(* and sends the response.                                                 *)
(***************************************************************************)
\* the response has been sent; the server waits for the next request (the
\* histories are brought up to date with the request served and the store
\* its handler left)
Deliver ==
    /\ req # NoReq
    /\ req' = NoReq
    /\ resp' = NoResp
    /\ served' = served + 1
    /\ issued' = [menu |-> issued.menu \cup {menu[i].id : i \in DOMAIN menu},
                  orders |-> issued.orders \cup {orders[i].id : i \in DOMAIN orders},
                  deliveries |-> issued.deliveries
                                    \cup {deliveries[i].id : i \in DOMAIN deliveries},
                  rides |-> issued.rides \cup {rides[i].id : i \in DOMAIN rides},
                  admin |-> issued.admin \cup {admin[i].id : i \in DOMAIN admin}]
    /\ accepted' =
          IF resp.status = 200 /\ req.op = "POST /api/drivers/deliveries/:id/accept"
          THEN accepted \cup {<<"deliveries", req.id, req.cred.id>>}
          ELSE IF resp.status = 200 /\ req.op = "POST /api/drivers/rides/:id/accept"
          THEN accepted \cup {<<"rides", req.id, req.cred.id>>}
          ELSE accepted
    /\ UNCHANGED store

\* the requests that can arrive now: the server takes one request at a time,
\* so none arrives while a response is still to be sent, and a run has at
\* most MaxRequests requests
Arriving(inputs) == IF req = NoReq /\ served < MaxRequests THEN inputs ELSE {}

AuthRoutes ==
    \/ \E body \in Arriving(LoginBodies) :
          \/ CustomersLogin(body)
          \/ DriversLogin(body)
          \/ PartnersLogin(body)
          \/ AdminLogin(body)
    \/ \E cred \in Arriving(Creds) :
          \/ CustomersRefreshToken(cred)
          \/ DriversRefreshToken(cred)
          \/ PartnersRefreshToken(cred)
          \/ AdminRefreshToken(cred)
          \/ CustomersLogout(cred)
          \/ DriversLogout(cred)
          \/ PartnersLogout(cred)
          \/ AdminLogout(cred)

ProfileRoutes ==
    \E cred \in Arriving(Creds) :
        \/ CustomersProfileGet(cred)
        \/ \E body \in ProfileBodies : CustomersProfilePut(cred, body)
        \/ \E body \in PasswordBodies : CustomersProfilePassword(cred, body)
        \/ \E file \in Files : CustomersProfilePhoto(cred, file)
        \/ DriversProfileGet(cred)
        \/ \E body \in ProfileBodies : DriversProfilePut(cred, body)
        \/ \E body \in PasswordBodies : DriversProfilePassword(cred, body)
        \/ \E available \in BOOLEAN : DriversProfileStatus(cred, available)
        \/ PartnersProfileGet(cred)
        \/ \E body \in ProfileBodies : PartnersProfilePut(cred, body)
        \/ \E body \in PasswordBodies : PartnersProfilePassword(cred, body)
        \/ \E file \in Files : PartnersProfileLogo(cred, file)

OrderRoutes ==
    \E cred \in Arriving(Creds) :
        \/ \E body \in OrderBodies :
              /\ Len(orders) < MaxOrders
              /\ CustomersOrdersCreate(cred, body)
        \/ CustomersOrdersList(cred)
        \/ PartnersOrdersIncoming(cred)
        \/ \E id \in Ids :
              \/ CustomersOrdersDetail(cred, id)
              \/ CustomersOrdersCancel(cred, id)
              \/ PartnersOrdersDetail(cred, id)
              \/ PartnersOrdersAccept(cred, id)
              \/ \E reason \in Reasons : PartnersOrdersReject(cred, id, reason)
              \/ PartnersOrdersReady(cred, id)

DeliveryRoutes ==
    \E cred \in Arriving(Creds) :
        \/ DriversDeliveriesList(cred)
        \/ \E id \in Ids :
              \/ DriversDeliveriesDetail(cred, id)
              \/ DriversDeliveriesAccept(cred, id)
              \/ \E reason \in Reasons : DriversDeliveriesReject(cred, id, reason)
              \/ DriversDeliveriesStart(cred, id)
              \/ \E amount \in Amounts : DriversDeliveriesComplete(cred, id, amount)

RideRoutes ==
    \E cred \in Arriving(Creds) :
        \/ \E body \in RideBodies :
              /\ Len(rides) < MaxRides
              /\ CustomersRidesCreate(cred, body)
        \/ CustomersRidesList(cred)
        \/ DriversRidesList(cred)
        \/ \E id \in Ids :
              \/ CustomersRidesDetail(cred, id)
              \/ CustomersRidesCancel(cred, id)
              \/ DriversRidesAccept(cred, id)
              \/ \E reason \in Reasons : DriversRidesReject(cred, id, reason)
              \/ DriversRidesStart(cred, id)
              \/ \E amount \in Amounts : DriversRidesComplete(cred, id, amount)

NotificationRoutes ==
    \E cred \in Arriving(Creds) :
        \/ CustomersNotificationsList(cred)
        \/ \E id \in Ids : CustomersNotificationsRead(cred, id)

MenuRoutes ==
    \/ CustomersRestaurants
    \/ \E id \in Arriving(Ids) : CustomersRestaurantDetail(id)
    \/ \E cred \in Arriving(Creds) :
          \/ PartnersMenuList(cred)
          \/ \E body \in MenuBodies :
                /\ Len(menu) < MaxMenu
                /\ PartnersMenuAdd(cred, body)
          \/ \E id \in Ids :
                \/ \E body \in MenuUpdateBodies : PartnersMenuUpdate(cred, id, body)
                \/ PartnersMenuDelete(cred, id)

AdminRoutes ==
    \/ \E body \in Arriving(AdminBodies) :
          /\ Len(admin) < MaxAdmins
          /\ AdminRegister(body)
    \/ \E cred \in Arriving(Creds) :
          \/ AdminDashboard(cred)
          \/ AdminCustomers(cred)
          \/ AdminDrivers(cred)
          \/ AdminPartners(cred)
          \/ AdminOrders(cred)
          \/ AdminRides(cred)

InfoRoutes ==
    \/ Root
    \/ ApiInfo
    \/ ApiStatus

Next ==
    \/ AuthRoutes
    \/ ProfileRoutes
    \/ OrderRoutes
    \/ DeliveryRoutes
    \/ RideRoutes
    \/ NotificationRoutes
    \/ MenuRoutes
    \/ AdminRoutes
    \/ InfoRoutes
    \/ Deliver

\* the whole server, over runs of at most MaxRequests requests
Spec == Init /\ [][Next]_vars

(***************************************************************************)
(* Vocabulary of the properties.                                           *)
(***************************************************************************)
Unauthorized == 401
Forbidden == 403
NotFound == 404
BadRequest == 400
Success == 200

\* the sequence of ids of a collection
IdsOf(coll) == [i \in DOMAIN coll |-> coll[i].id]

\* the transition operations, by the collection their :id names
OrderTransitions ==
    { "POST /api/customers/orders/:id/cancel",
      "POST /api/partners/orders/:orderId/accept",
      "POST /api/partners/orders/:orderId/reject",
      "POST /api/partners/orders/:orderId/ready" }
DeliveryTransitions ==
    { "POST /api/drivers/deliveries/:id/accept",
      "POST /api/drivers/deliveries/:id/reject",
      "POST /api/drivers/deliveries/:id/start",
      "POST /api/drivers/deliveries/:id/complete" }
RideTransitions ==
    { "POST /api/customers/rides/:id/cancel",
      "POST /api/drivers/rides/:id/accept",
      "POST /api/drivers/rides/:id/reject",
      "POST /api/drivers/rides/:id/start",
      "POST /api/drivers/rides/:id/complete" }
NotificationTransitions == { "POST /api/customers/notifications/:id/read" }
TransitionOps ==
    OrderTransitions \cup DeliveryTransitions \cup RideTransitions
        \cup NotificationTransitions

\* the collection a transition operation's :id is looked up in
TargetOf(op) ==
    IF op \in OrderTransitions THEN orders
    ELSE IF op \in DeliveryTransitions THEN deliveries
    ELSE IF op \in RideTransitions THEN rides
    ELSE notifications

\* the role-restricted operations of each role
CustomerOps ==
    { "GET /api/customers/profile", "PUT /api/customers/profile",
      "PUT /api/customers/profile/password", "POST /api/customers/profile/photo",
      "POST /api/customers/orders", "GET /api/customers/orders",
      "GET /api/customers/orders/:id", "POST /api/customers/orders/:id/cancel",
      "POST /api/customers/rides", "GET /api/customers/rides",
      "GET /api/customers/rides/:id", "POST /api/customers/rides/:id/cancel",
      "GET /api/customers/notifications",
      "POST /api/customers/notifications/:id/read" }
DriverOps ==
    { "GET /api/drivers/profile", "PUT /api/drivers/profile",
      "PUT /api/drivers/profile/password", "POST /api/drivers/profile/status",
      "GET /api/drivers/deliveries", "GET /api/drivers/deliveries/:id",
      "POST /api/drivers/deliveries/:id/accept",
      "POST /api/drivers/deliveries/:id/reject",
      "POST /api/drivers/deliveries/:id/start",
      "POST /api/drivers/deliveries/:id/complete",
      "GET /api/drivers/rides", "POST /api/drivers/rides/:id/accept",
      "POST /api/drivers/rides/:id/reject", "POST /api/drivers/rides/:id/start",
      "POST /api/drivers/rides/:id/complete" }
PartnerOps ==
    { "GET /api/partners/profile", "PUT /api/partners/profile",
      "PUT /api/partners/profile/password", "POST /api/partners/profile/logo",
      "GET /api/partners/menu", "POST /api/partners/menu",
      "PUT /api/partners/menu/:menuId", "DELETE /api/partners/menu/:menuId",
      "GET /api/partners/orders/incoming", "GET /api/partners/orders/:orderId",
      "POST /api/partners/orders/:orderId/accept",
      "POST /api/partners/orders/:orderId/reject",
      "POST /api/partners/orders/:orderId/ready" }
AdminOps ==
    { "GET /api/admin/dashboard", "GET /api/admin/customers", "GET /api/admin/drivers",
      "GET /api/admin/partners", "GET /api/admin/orders", "GET /api/admin/rides" }
RoleRestrictedOps == CustomerOps \cup DriverOps \cup PartnerOps \cup AdminOps

\* the operations open to any valid credential
AnyRoleOps ==
    { "POST /api/customers/refresh-token", "POST /api/drivers/refresh-token",
      "POST /api/partners/refresh-token", "POST /api/admin/refresh-token",
      "POST /api/customers/logout", "POST /api/drivers/logout",
      "POST /api/partners/logout", "POST /api/admin/logout" }
ProtectedOps == RoleRestrictedOps \cup AnyRoleOps

\* the role an operation requires
RequiredRole(op) ==
    IF op \in CustomerOps THEN "customer"
    ELSE IF op \in DriverOps THEN "driver"
    ELSE IF op \in PartnerOps THEN "partner"
    ELSE "admin"

(***************************************************************************)
(* C1.  Orders and deliveries are paired.                                  *)
(***************************************************************************)
\* each order has exactly one delivery naming it, each delivery names an order
OrdersPairedWithDeliveries ==
    /\ \A i \in DOMAIN orders :
          Cardinality({j \in DOMAIN deliveries : deliveries[j].orderId = orders[i].id}) = 1
    /\ \A j \in DOMAIN deliveries :
          \E i \in DOMAIN orders : orders[i].id = deliveries[j].orderId

\* a successful create-order appends one pending order and its one ready,
\* driverless delivery; no other step adds or removes an order or a delivery
CreateOrderAloneAdds ==
    IF req'.op = "POST /api/customers/orders" /\ resp'.status = Success
    THEN /\ Len(orders') = Len(orders) + 1
         /\ SubSeq(orders', 1, Len(orders)) = orders
         /\ orders'[Len(orders')].status = "pending"
         /\ Len(deliveries') = Len(deliveries) + 1
         /\ SubSeq(deliveries', 1, Len(deliveries)) = deliveries
         /\ deliveries'[Len(deliveries')].status = "ready"
         /\ deliveries'[Len(deliveries')].driverId = Null
         /\ deliveries'[Len(deliveries')].orderId = orders'[Len(orders')].id
    ELSE /\ IdsOf(orders') = IdsOf(orders)
         /\ IdsOf(deliveries') = IdsOf(deliveries)

\* C1: starting from a store with no orders and no deliveries, in every state
\* each order has exactly one delivery whose orderId is the order's id and
\* every delivery references an existing order; a successful create-order
\* adds, in one step, exactly one pending order and exactly one ready delivery
\* with driverId null, and no other operation adds or removes an order or a
\* delivery.
C1_OrderDeliveryPairing ==
    /\ []OrdersPairedWithDeliveries
    /\ [][CreateOrderAloneAdds]_vars

\* two orders have been created, the second by the request just served
C1_Witness ==
    /\ req.op = "POST /api/customers/orders"
    /\ resp.status = Success
    /\ Len(orders) = 2
    /\ Len(deliveries) = 2

(***************************************************************************)
(* C2.  Transitions on an id that resolves to no record.                   *)
(***************************************************************************)
\* C2: every transition operation called by a caller holding the required
\* role with an id that resolves to no record returns NotFound, never a
\* success message.
C2_MissingIdIsNotFound ==
    ( /\ req.op \in TransitionOps
      /\ req.cred.kind = "valid"
      /\ req.cred.role = RequiredRole(req.op)
      /\ Find(TargetOf(req.op), [id |-> req.id]) = 0 )
    => resp.status = NotFound

(***************************************************************************)
(* C3.  driverId is written once.                                          *)
(***************************************************************************)
\* in one step of collection coll, whose accept operation is accept: a null
\* driverId is set only by a successful accept, a set driverId keeps its value
DriverIdWrittenOnce(coll, collNext, accept) ==
    \A i \in DOMAIN coll :
        /\ i \in DOMAIN collNext
        /\ coll[i].driverId # Null => collNext[i].driverId = coll[i].driverId
        /\ (coll[i].driverId = Null /\ collNext[i].driverId # Null)
              => (req'.op = accept /\ resp'.status = Success)

\* C3: for every delivery and every ride, driverId is null from creation
\* until the first successful accept, and once it holds a driver's id no
\* later operation changes it to a different driver's id.
C3_NoReassignment ==
    [][ /\ DriverIdWrittenOnce(deliveries, deliveries',
                               "POST /api/drivers/deliveries/:id/accept")
        /\ DriverIdWrittenOnce(rides, rides', "POST /api/drivers/rides/:id/accept")
        /\ \A i \in DOMAIN deliveries' \ DOMAIN deliveries :
              deliveries'[i].driverId = Null
        /\ \A i \in DOMAIN rides' \ DOMAIN rides : rides'[i].driverId = Null ]_vars

(***************************************************************************)
(* C4.  A refused request changes nothing.                                 *)
(***************************************************************************)
\* C4: every operation that ends in Unauthorized, Forbidden, NotFound or
\* BadRequest leaves every collection (accounts, menu, orders, deliveries,
\* rides, notifications) exactly as it was before the call.
C4_RefusalChangesNothing ==
    [][ resp'.status \in {Unauthorized, Forbidden, NotFound, BadRequest}
            => store' = store ]_vars

\* a create-order refused for its body, with no order and no delivery made
C4_Witness ==
    /\ req.op = "POST /api/customers/orders"
    /\ resp.status = BadRequest
    /\ orders = << >>
    /\ deliveries = << >>

(***************************************************************************)
(* C5.  Owner checks on orders and rides.                                  *)
(***************************************************************************)
CustomerOrderOps ==
    { "GET /api/customers/orders/:id", "POST /api/customers/orders/:id/cancel" }
PartnerOrderOps ==
    { "GET /api/partners/orders/:orderId", "POST /api/partners/orders/:orderId/accept",
      "POST /api/partners/orders/:orderId/reject",
      "POST /api/partners/orders/:orderId/ready" }
CustomerRideOps ==
    { "GET /api/customers/rides/:id", "POST /api/customers/rides/:id/cancel" }

\* request r comes from a caller of the operation's role who does not own the
\* order of ords, or the ride of rds, that it names
NonOwnerCall(r, ords, rds) ==
    /\ r.cred.kind = "valid"
    /\ \/ /\ r.op \in CustomerOrderOps
          /\ r.cred.role = "customer"
          /\ \E i \in DOMAIN ords : ords[i].id = r.id /\ ords[i].customerId # r.cred.id
       \/ /\ r.op \in PartnerOrderOps
          /\ r.cred.role = "partner"
          /\ \E i \in DOMAIN ords : ords[i].id = r.id /\ ords[i].partnerId # r.cred.id
       \/ /\ r.op \in CustomerRideOps
          /\ r.cred.role = "customer"
          /\ \E i \in DOMAIN rds : rds[i].id = r.id /\ rds[i].customerId # r.cred.id

\* C5: a customer who does not own order O calling order detail or cancel, a
\* partner who does not own O calling order detail, accept, reject or
\* mark-ready, and a customer who does not own ride R calling ride detail or
\* cancel, all receive Forbidden, obtain no field of the resource, and leave
\* it unchanged.
C5_NonOwnerForbidden ==
    [][ NonOwnerCall(req', orders, rides)
            => /\ resp'.status = Forbidden
               /\ resp'.kind = "error"
               /\ resp'.body = "Forbidden"
               /\ store' = store ]_vars

\* a partner refused on another partner's order, and a customer on another
\* customer's ride
C5_Witness ==
    /\ NonOwnerCall(req, orders, rides)
    /\ resp.status = Forbidden
    /\ \/ req.op = "POST /api/partners/orders/:orderId/ready"
       \/ req.op = "POST /api/customers/rides/:id/cancel"
       \/ req.op = "GET /api/customers/orders/:id"

(***************************************************************************)
(* C6.  Role checks.                                                       *)
(***************************************************************************)
\* C6: every role-restricted operation called with a valid credential whose
\* role differs from the operation's required role returns Forbidden,
\* whatever the payload and whether or not the target id exists; an admin
\* credential gets no override on customer, driver or partner operations.
C6_WrongRoleForbidden ==
    ( /\ req.op \in RoleRestrictedOps
      /\ req.cred.kind = "valid"
      /\ req.cred.role # RequiredRole(req.op) )
    => (resp.status = Forbidden /\ resp.kind = "error")

\* an admin refused on a driver's transition of a delivery that exists
C6_Witness ==
    /\ req.op = "POST /api/drivers/deliveries/:id/complete"
    /\ req.cred.kind = "valid"
    /\ req.cred.role = "admin"
    /\ Find(deliveries, [id |-> req.id]) # 0
    /\ resp.status = Forbidden

(***************************************************************************)
(* C7.  Credential checks come first.                                      *)
(***************************************************************************)
\* C7: any protected operation called with a missing, malformed, invalid or
\* expired credential returns Unauthorized regardless of payload validity,
\* target id and resource state; the credential check is decided before the
\* role, existence and ownership checks.
C7_BadCredentialUnauthorized ==
    (req.op \in ProtectedOps /\ req.cred.kind # "valid")
        => (resp.status = Unauthorized /\ resp.kind = "error")

\* the expired credential of the customer who owns an existing order, refused
\* on cancelling it
C7_Witness ==
    /\ req.op = "POST /api/customers/orders/:id/cancel"
    /\ req.cred.kind = "expired"
    /\ \E i \in DOMAIN orders : orders[i].id = req.id /\ orders[i].customerId = req.cred.id
    /\ resp.status = Unauthorized

(***************************************************************************)
(* C8, C9, C10.  Status graphs.                                            *)
(***************************************************************************)
\* every record of coll keeps its status or moves along an edge
MovesAlong(coll, collNext, edges) ==
    \A i \in DOMAIN coll :
        /\ i \in DOMAIN collNext
        /\ \/ collNext[i].status = coll[i].status
           \/ <<coll[i].status, collNext[i].status>> \in edges

OrderEdges ==
    { <<"pending", "accepted">>, <<"accepted", "ready">>, <<"pending", "rejected">>,
      <<"pending", "cancelled">>, <<"accepted", "cancelled">>, <<"ready", "cancelled">> }

\* C8: an order's status changes only along the edges pending->accepted,
\* accepted->ready, (pending, accepted or ready)->cancelled and
\* pending->rejected; once an order is cancelled or rejected no operation
\* changes its status again.
C8_OrderStatusGraph == [][MovesAlong(orders, orders', OrderEdges)]_vars

DeliveryEdges ==
    { <<"ready", "accepted">>, <<"accepted", "ongoing">>, <<"ongoing", "completed">>,
      <<"ready", "rejected">> }

\* C9: a delivery's status changes only along the edges ready->accepted
\* (accept), accepted->ongoing (start), ongoing->completed (complete) and
\* ready->rejected (reject), under every sequence of driver operations.
C9_DeliveryStatusGraph == [][MovesAlong(deliveries, deliveries', DeliveryEdges)]_vars

RideStatuses == {"pending", "ongoing", "completed", "cancelled", "rejected"}

RideEdges ==
    { <<"pending", "ongoing">>, <<"ongoing", "completed">> }
        \cup (RideStatuses \X {"cancelled", "rejected"})

\* C10: a ride's status follows pending->ongoing->completed: it becomes
\* ongoing only from pending and completed only from ongoing, the only other
\* changes being to cancelled by the owning customer and to rejected by a
\* driver, each from any state.
C10_RideStatusGraph ==
    [][ /\ MovesAlong(rides, rides', RideEdges)
        /\ \A i \in DOMAIN rides :
              (i \in DOMAIN rides' /\ rides'[i].status # rides[i].status) =>
                  /\ rides'[i].status = "cancelled" =>
                        (req'.cred.role = "customer" /\ req'.cred.id = rides[i].customerId)
                  /\ rides'[i].status = "rejected" => req'.cred.role = "driver" ]_vars

(***************************************************************************)
(* Identity of records.                                                    *)
(***************************************************************************)
\* the collections of the store, by name
Collection(c) ==
    CASE c = "customers" -> customers
      [] c = "drivers" -> drivers
      [] c = "partners" -> partners
      [] c = "admin" -> admin
      [] c = "menu" -> menu
      [] c = "orders" -> orders
      [] c = "deliveries" -> deliveries
      [] c = "rides" -> rides

\* the same collections after the step
CollectionAfter(c) ==
    CASE c = "customers" -> customers'
      [] c = "drivers" -> drivers'
      [] c = "partners" -> partners'
      [] c = "admin" -> admin'
      [] c = "menu" -> menu'
      [] c = "orders" -> orders'
      [] c = "deliveries" -> deliveries'
      [] c = "rides" -> rides'

IdentifiedCollections ==
    {"customers", "drivers", "partners", "admin", "menu", "orders", "deliveries", "rides"}

\* the collections some route creates records in
CreatingCollections == {"admin", "menu", "orders", "deliveries", "rides"}

\* the step creates a record of collection c: one record more, the new one last
Creates(c) == Len(CollectionAfter(c)) = Len(Collection(c)) + 1

\* the id of the record the step created in c
CreatedId(c) == CollectionAfter(c)[Len(CollectionAfter(c))].id

\* C11: in every reachable state no two records of one collection have the
\* same id, whatever operations ran before (profile and menu updates, whose
\* body is applied to the stored record, included)
C11_IdsUnique ==
    \A c \in IdentifiedCollections :
        \A i, j \in DOMAIN Collection(c) :
            i # j => Collection(c)[i].id # Collection(c)[j].id

\* C12: an id a record of a collection has held is never given to a record
\* created later in that collection, not even after the record that held it
\* was deleted
C12_IdsNeverReused ==
    [][\A c \in CreatingCollections : Creates(c) => CreatedId(c) \notin issued[c]]_vars

\* a creation gives the largest id held plus one, or 1 in an empty collection
CreatedIdIsMaxPlusOne(c) ==
    Creates(c) =>
        /\ Len(Collection(c)) = 0 => CreatedId(c) = 1
        /\ Len(Collection(c)) # 0 =>
              /\ \A i \in DOMAIN Collection(c) : Collection(c)[i].id < CreatedId(c)
              /\ \E i \in DOMAIN Collection(c) : Collection(c)[i].id + 1 = CreatedId(c)
        /\ \A i \in DOMAIN Collection(c) : CollectionAfter(c)[i] = Collection(c)[i]

\* collections without deletion hold the ids 1..N in the order of creation
CountsFromOne(coll) == \A i \in DOMAIN coll : coll[i].id = i

\* C13: in orders, deliveries, rides, menu and admin a created record gets
\* the largest id of the collection plus one, or 1 when the collection is
\* empty: without deletions the ids are 1..N in increasing order, and after
\* the deletion of the largest id the next id is max(remaining) + 1, not 1
C13_NewIdIsMaxPlusOne ==
    /\ [][\A c \in CreatingCollections : CreatedIdIsMaxPlusOne(c)]_vars
    /\ [](/\ CountsFromOne(orders)
          /\ CountsFromOne(deliveries)
          /\ CountsFromOne(rides)
          /\ CountsFromOne(admin))

\* a menu item was created after the item with the largest id had been
\* deleted, the menu not being empty: it got max(remaining) + 1
C13_Witness ==
    /\ req # NoReq
    /\ req.op = "POST /api/partners/menu"
    /\ resp.status = 200
    /\ Len(menu) > 1
    /\ resp.body.id = menu[Len(menu)].id
    /\ resp.body.id \in issued.menu
    /\ resp.body.id # 1
    /\ \A i \in 1..(Len(menu) - 1) : menu[i].id < resp.body.id

(***************************************************************************)
(* Ownership.                                                              *)
(***************************************************************************)
\* the records a step keeps in place keep the owner named by field f
KeepsOwner(coll, collAfter, f) ==
    \A i \in DOMAIN coll \cap DOMAIN collAfter : collAfter[i][f] = coll[i][f]

\* C14: owner fields never change after creation: an order's customerId and
\* partnerId, a ride's customerId, a menu item's partnerId and a
\* notification's userId keep the value they were created with
C14_OwnersImmutable ==
    [][/\ Len(orders') >= Len(orders)
       /\ KeepsOwner(orders, orders', "customerId")
       /\ KeepsOwner(orders, orders', "partnerId")
       /\ Len(rides') >= Len(rides)
       /\ KeepsOwner(rides, rides', "customerId")
       /\ Len(notifications') >= Len(notifications)
       /\ KeepsOwner(notifications, notifications', "userId")
       /\ Len(menu') >= Len(menu) => KeepsOwner(menu, menu', "partnerId")]_vars

\* the menu items that do not belong to partner p
ItemsOfOthers(items, p) == SelectSeq(items, LAMBDA m : m.partnerId # p)

\* C15: a partner's menu update or delete changes or removes only items whose
\* partnerId is the caller's id: an item of another partner is neither
\* modified nor removed, and a caller who owns no item of the given id is
\* refused
C15_MenuChangesOwnItemsOnly ==
    [][req' # NoReq =>
        /\ req'.op = "PUT /api/partners/menu/:menuId" =>
              /\ Len(menu') = Len(menu)
              /\ \A i \in DOMAIN menu :
                    menu[i].partnerId # req'.cred.id => menu'[i] = menu[i]
        /\ req'.op = "DELETE /api/partners/menu/:menuId" =>
              ItemsOfOthers(menu', req'.cred.id) = ItemsOfOthers(menu, req'.cred.id)
        /\ /\ req'.op \in {"PUT /api/partners/menu/:menuId",
                            "DELETE /api/partners/menu/:menuId"}
           /\ ~\E i \in DOMAIN menu :
                    menu[i].id = req'.id /\ menu[i].partnerId = req'.cred.id
           => resp'.status \in {Unauthorized, Forbidden, NotFound} /\ menu' = menu]_vars

(***************************************************************************)
(* Orders keep what they were created with.                                *)
(***************************************************************************)
MenuWriteOps ==
    { "POST /api/partners/menu", "PUT /api/partners/menu/:menuId",
      "DELETE /api/partners/menu/:menuId" }

\* the part of an order taken from the menu at creation
Priced(o) == [total |-> o.total, items |-> o.items]

\* C16: once an order exists, a later menu operation (create, update of name
\* or price, delete), on the items the order was built from included, leaves
\* the order's total and lines (name, price, quantity) unchanged
C16_OrdersFrozen ==
    [][req' # NoReq /\ req'.op \in MenuWriteOps =>
        \A i \in DOMAIN orders :
            i \in DOMAIN orders' /\ Priced(orders'[i]) = Priced(orders[i])]_vars

\* a menu update went through while an order holds a line whose price is no
\* longer the price of the menu item it was built from
C16_Witness ==
    /\ req # NoReq
    /\ req.op = "PUT /api/partners/menu/:menuId"
    /\ resp.status = 200
    /\ \E i \in DOMAIN orders : \E k \in DOMAIN orders[i].items :
          \E m \in DOMAIN menu :
            /\ menu[m].id = orders[i].items[k].menuId
            /\ menu[m].id = req.id
            /\ menu[m].partnerId = orders[i].partnerId
            /\ menu[m].price # orders[i].items[k].price
            /\ orders[i].items[k].name # "Unknown"

(***************************************************************************)
(* What a driver is shown.                                                 *)
(***************************************************************************)
\* the records of a list
Listed(list) == {list[k] : k \in DOMAIN list}

\* the request just served was the list operation op, and it succeeded
ListServed(op) == req.op = op /\ resp.status = Success

\* C17: the delivery list returned to driver D is exactly the deliveries with
\* status ready or driverId = D, and (every ready delivery having driverId
\* null) it never holds a delivery whose driverId is another driver: once
\* another driver has accepted a delivery, D no longer sees it
C17_DeliveryListVisibility ==
    /\ \A i \in DOMAIN deliveries :
          deliveries[i].status = "ready" => deliveries[i].driverId = Null
    /\ ListServed("GET /api/drivers/deliveries") =>
          /\ Listed(resp.body) =
                {deliveries[i] : i \in {j \in DOMAIN deliveries :
                    \/ deliveries[j].status = "ready"
                    \/ deliveries[j].driverId = req.cred.id}}
          /\ Len(resp.body) = Cardinality(Listed(resp.body))
          /\ \A k \in DOMAIN resp.body : resp.body[k].driverId \in {Null, req.cred.id}

\* a driver has listed the deliveries while a delivery is another driver's
C17_Witness ==
    /\ ListServed("GET /api/drivers/deliveries")
    /\ \E i \in DOMAIN deliveries :
          /\ deliveries[i].driverId \notin {Null, req.cred.id}
          /\ deliveries[i] \notin Listed(resp.body)

\* the ride list is the pending rides, none of which has a driver
RideListIsPendingPool ==
    /\ \A i \in DOMAIN rides : rides[i].status = "pending" => rides[i].driverId = Null
    /\ ListServed("GET /api/drivers/rides") =>
          /\ Listed(resp.body) =
                {rides[i] : i \in {j \in DOMAIN rides : rides[j].status = "pending"}}
          /\ Len(resp.body) = Cardinality(Listed(resp.body))
          /\ \A k \in DOMAIN resp.body : resp.body[k].driverId = Null

\* a ride that has left pending does not come back to it
LeftPendingForGood ==
    \A i \in DOMAIN rides :
        rides[i].status # "pending" => i \in DOMAIN rides' /\ rides'[i].status # "pending"

\* C18: the ride list returned to any driver is exactly the rides with status
\* pending, each with driverId null; a ride whose status has left pending
\* (accepted, started, completed, rejected or cancelled) never appears in a
\* driver's list again
C18_RideListIsPendingPool ==
    /\ []RideListIsPendingPool
    /\ [][LeftPendingForGood]_vars

\* a driver has listed the rides while a ride exists that is no longer pending
C18_Witness ==
    /\ ListServed("GET /api/drivers/rides")
    /\ \E i \in DOMAIN rides :
          rides[i].status # "pending" /\ rides[i] \notin Listed(resp.body)

(***************************************************************************)
(* The total of a created order.                                           *)
(***************************************************************************)
\* the sum over the lines of price x quantity
RECURSIVE LineSum(_)
LineSum(lines) ==
    IF lines = << >> THEN 0
    ELSE lines[1].price * lines[1].qty + LineSum(Tail(lines))

\* the positions of the menu items with the given id and partner
MenuMatches(menuId, partnerId) ==
    {m \in DOMAIN menu : menu[m].id = menuId /\ menu[m].partnerId = partnerId}

\* a line is priced and named after the first menu item of its menuId that
\* belongs to the order's partner, and is "Unknown" at price 0 without one
LinePricedFromMenu(line, partnerId) ==
    LET matches == MenuMatches(line.menuId, partnerId)
    IN  IF matches = {}
        THEN line.price = 0 /\ line.name = "Unknown"
        ELSE \E m \in matches :
                /\ \A n \in matches : m <= n
                /\ line.price = menu[m].price
                /\ "name" \in DOMAIN menu[m] => line.name = menu[m].name

\* the step is a create-order that succeeded
OrderCreated ==
    /\ req' # NoReq
    /\ req'.op = "POST /api/customers/orders"
    /\ resp'.status = Success

\* C19: create-order computes total as the sum over its lines of price x
\* quantity, a line's price and name being those of the menu item with
\* id = menuId and partnerId = the order's partnerId; a line without such an
\* item (an item of another partner included) is priced 0 and named
\* "Unknown" and the order is created all the same; one line of quantity 2
\* on an item priced 10 gives total 20, an order that is pending and a
\* sibling delivery that is ready
C19_OrderTotal ==
    [][OrderCreated =>
        LET o == orders'[Len(orders')]
            d == deliveries'[Len(deliveries')]
        IN  /\ Len(orders') = Len(orders) + 1
            /\ \A k \in DOMAIN o.items : LinePricedFromMenu(o.items[k], o.partnerId)
            /\ o.total = LineSum(o.items)
            /\ resp'.body.total = o.total
            /\ o.status = "pending"
            /\ d.orderId = o.id /\ d.status = "ready"
            /\ (Len(o.items) = 1 /\ o.items[1].qty = 2 /\ o.items[1].price = 10)
                  => o.total = 20]_vars

\* an order has been created with a line on a menu item of another partner,
\* priced 0 and named "Unknown", next to a line priced from the menu
C19_Witness ==
    /\ req.op = "POST /api/customers/orders"
    /\ resp.status = Success
    /\ LET o == orders[Len(orders)]
       IN  /\ \E k \in DOMAIN o.items :
                 /\ o.items[k].name = "Unknown"
                 /\ o.items[k].price = 0
                 /\ \E m \in DOMAIN menu :
                       menu[m].id = o.items[k].menuId /\ menu[m].partnerId # o.partnerId
           /\ \E k \in DOMAIN o.items : o.items[k].price > 0 /\ o.items[k].qty > 1
           /\ o.total > 0

(***************************************************************************)
(* Refreshing a credential.                                                *)
(***************************************************************************)
RefreshOps ==
    { "POST /api/customers/refresh-token", "POST /api/drivers/refresh-token",
      "POST /api/partners/refresh-token", "POST /api/admin/refresh-token" }

\* C20: refresh called with a currently valid credential of any role, through
\* any of the four refresh operations, returns a credential with the subject
\* id, role and email of the one presented, whatever the stored password is;
\* the credential returned is again one of the same subject and role, so no
\* sequence of refreshes changes them
C20_RefreshKeepsClaims ==
    req.op \in RefreshOps =>
        /\ req.cred \in ValidCreds => resp.status = Success
        /\ req.cred \notin ValidCreds => resp.status = Unauthorized
        /\ resp.status = Success =>
              /\ resp.kind = "token"
              /\ resp.body.kind = "valid"
              /\ resp.body.id = req.cred.id
              /\ resp.body.role = req.cred.role
              /\ resp.body.email = req.cred.email
              /\ resp.body \in ValidCreds

\* a customer whose stored password is no longer the one they logged in with
\* has refreshed their credential through another role's refresh operation
C20_Witness ==
    /\ req.op = "POST /api/drivers/refresh-token"
    /\ resp.status = Success
    /\ req.cred.role = "customer"
    /\ req.cred.id = 1
    /\ customers[1].id = 1
    /\ customers[1].password # "p1"

(***************************************************************************)
(* Login.                                                                  *)
(***************************************************************************)
LoginOps ==
    { "POST /api/customers/login", "POST /api/drivers/login",
      "POST /api/partners/login", "POST /api/admin/login" }

\* the collection a login operation looks the account up in
AccountsOf(op) ==
    CASE op = "POST /api/customers/login" -> customers
      [] op = "POST /api/drivers/login" -> drivers
      [] op = "POST /api/partners/login" -> partners
      [] op = "POST /api/admin/login" -> admin

\* the role of the collection a login operation logs into
RoleOf(op) ==
    CASE op = "POST /api/customers/login" -> "customer"
      [] op = "POST /api/drivers/login" -> "driver"
      [] op = "POST /api/partners/login" -> "partner"
      [] op = "POST /api/admin/login" -> "admin"

\* the positions of the accounts with the given email
WithEmail(accounts, email) ==
    {i \in DOMAIN accounts : "email" \in DOMAIN accounts[i] /\ accounts[i].email = email}

\* the answer to the login just served is the one its email and password call for
LoginAnswered ==
    req.op \in LoginOps =>
        LET accounts == AccountsOf(req.op)
            found == WithEmail(accounts, req.cred.email)
            first == CHOOSE i \in found : \A j \in found : i <= j
            passwordOf(r) == IF "password" \in DOMAIN r THEN r.password ELSE "undefined"
        IN  IF found # {} /\ passwordOf(accounts[first]) = req.cred.password
            THEN /\ resp.status = Success
                 /\ resp.kind = "token"
                 /\ resp.body.kind = "valid"
                 /\ resp.body.id = accounts[first].id
                 /\ resp.body.email = accounts[first].email
                 /\ resp.body.role = RoleOf(req.op)
            ELSE /\ resp.status = Unauthorized
                 /\ resp.kind = "error"

\* a login leaves every collection as it was
LoginReadsOnly == req'.op \in LoginOps => UNCHANGED store

\* C21: login on a role collection succeeds exactly when the record found in
\* that collection by the given email has the given password; the credential
\* issued carries that record's id and email and the role of the collection
\* logged into; otherwise the answer is Unauthorized and no credential is
\* issued; login never changes the store
C21_LoginByEmailAndPassword ==
    /\ []LoginAnswered
    /\ [][LoginReadsOnly]_vars

\* a login was refused with the password the account was seeded with, the
\* account's password having been changed since
C21_Witness ==
    /\ req.op = "POST /api/customers/login"
    /\ resp.status = Unauthorized
    /\ req.cred.email = "a@x"
    /\ req.cred.password = "p1"
    /\ customers[1].email = "a@x"
    /\ customers[1].password = "p3"

(***************************************************************************)
(* Accepting what another driver has accepted.                             *)
(***************************************************************************)
\* the request of the step comes from a driver with a valid credential
ByDriver == req'.cred \in ValidCreds /\ req'.cred.role = "driver"

\* a driver's accept on an existing record succeeds and leaves the record with
\* the caller as driver and the given status, whoever its driver was before
AcceptOverwrites(coll, collAfter, op, status) ==
    req'.op = op /\ ByDriver =>
        \A i \in DOMAIN coll :
            /\ coll[i].id = req'.id
            /\ \A j \in 1..(i - 1) : coll[j].id # req'.id
            => /\ resp'.status = Success
               /\ i \in DOMAIN collAfter
               /\ collAfter[i].driverId = req'.cred.id
               /\ collAfter[i].status = status

\* C22: when driver D has accepted delivery (or ride) X and a different driver
\* E accepts X afterwards, E's accept succeeds and X ends with driverId = E
\* and status accepted (ongoing for a ride): the last accept's driverId wins
\* and neither call is refused
C22_LastAcceptWins ==
    [][/\ AcceptOverwrites(deliveries, deliveries',
                           "POST /api/drivers/deliveries/:id/accept", "accepted")
       /\ AcceptOverwrites(rides, rides',
                           "POST /api/drivers/rides/:id/accept", "ongoing")]_vars

\* driver E's accept of a delivery has just succeeded, another driver having
\* accepted the same delivery before
C22_Witness ==
    /\ req.op = "POST /api/drivers/deliveries/:id/accept"
    /\ resp.status = Success
    /\ \E e \in accepted :
          e[1] = "deliveries" /\ e[2] = req.id /\ e[3] # req.cred.id
    /\ \E i \in DOMAIN deliveries :
          /\ deliveries[i].id = req.id
          /\ deliveries[i].driverId = req.cred.id
          /\ deliveries[i].status = "accepted"

(***************************************************************************)
(* What the delivery transitions write.                                    *)
(***************************************************************************)
\* the fields reject, start and complete may write
TransitionFields == {"status", "rejectReason", "collectedAmount"}

\* record r after the step is r before it, but for the fields in written
SameBut(r, rAfter, written) ==
    /\ DOMAIN r \ written = DOMAIN rAfter \ written
    /\ \A k \in DOMAIN r \ written : rAfter[k] = r[k]

\* C23: delivery reject, start and complete, called by any driver (one other
\* than the delivery's driver too), change only status and rejectReason or
\* collectedAmount and leave driverId, orderId, pickupAddress and dropAddress
\* as they were; accept is the only operation that writes a delivery's
\* driverId
C23_DeliveryTransitionFrame ==
    [][/\ Len(deliveries') >= Len(deliveries)
       /\ req'.op \in { "POST /api/drivers/deliveries/:id/reject",
                        "POST /api/drivers/deliveries/:id/start",
                        "POST /api/drivers/deliveries/:id/complete" } =>
             /\ Len(deliveries') = Len(deliveries)
             /\ \A i \in DOMAIN deliveries :
                   SameBut(deliveries[i], deliveries'[i], TransitionFields)
       /\ \A i \in DOMAIN deliveries :
             deliveries'[i].driverId # deliveries[i].driverId =>
                 req'.op = "POST /api/drivers/deliveries/:id/accept"]_vars

\* a driver has completed a delivery that another driver had accepted, and
\* the delivery is still that other driver's
C23_Witness ==
    /\ req.op = "POST /api/drivers/deliveries/:id/complete"
    /\ resp.status = Success
    /\ \E i \in DOMAIN deliveries :
          /\ deliveries[i].id = req.id
          /\ deliveries[i].status = "completed"
          /\ deliveries[i].driverId \notin {Null, req.cred.id}

(***************************************************************************)
(* Orders and deliveries move independently.                               *)
(***************************************************************************)
\* the order a delivery was created for is cancelled or rejected
OrderCalledOff(d) ==
    \E o \in DOMAIN orders :
        orders[o].id = d.orderId /\ orders[o].status \in {"cancelled", "rejected"}

\* C24: order accept, reject, mark-ready and cancel leave every delivery
\* unchanged, and delivery accept, reject, start and complete leave every
\* order unchanged; the delivery of a cancelled or rejected order can still
\* be accepted and completed
C24_LifecyclesIndependent ==
    [][/\ req'.op \in OrderTransitions => deliveries' = deliveries
       /\ req'.op \in DeliveryTransitions => orders' = orders
       /\ \A i \in DOMAIN deliveries :
             /\ ByDriver
             /\ deliveries[i].id = req'.id
             /\ OrderCalledOff(deliveries[i])
             => /\ req'.op = "POST /api/drivers/deliveries/:id/accept" =>
                      resp'.status = Success /\ deliveries'[i].status = "accepted"
                /\ req'.op = "POST /api/drivers/deliveries/:id/complete" =>
                      resp'.status = Success /\ deliveries'[i].status = "completed"]_vars

\* a driver has accepted the delivery of an order that was cancelled or
\* rejected before
C24_Witness ==
    /\ req.op = "POST /api/drivers/deliveries/:id/accept"
    /\ resp.status = Success
    /\ \E i \in DOMAIN deliveries :
          /\ deliveries[i].id = req.id
          /\ deliveries[i].status = "accepted"
          /\ OrderCalledOff(deliveries[i])

(***************************************************************************)
(* The pickup address of a delivery.                                       *)
(***************************************************************************)
\* the address of the partner with the given id as the store has it now, ""
\* when there is no such partner or it has no address
AddressOfPartner(partnerId) ==
    LET owners == {p \in DOMAIN partners : partners[p].id = partnerId}
        first == CHOOSE p \in owners : \A q \in owners : p <= q
    IN  IF owners = {} THEN ""
        ELSE IF "address" \in DOMAIN partners[first] THEN partners[first].address
        ELSE ""

\* C25: the delivery spawned by create-order has pickupAddress equal to the
\* address, at the moment of creation, of the partner with id = partnerId
\* (the empty string if no such partner or address exists), and a later
\* change of that partner's address through partner profile update leaves
\* the delivery's pickupAddress unchanged
C25_PickupAddressFrozen ==
    [][/\ OrderCreated =>
             deliveries'[Len(deliveries')].pickupAddress
                 = AddressOfPartner(orders'[Len(orders')].partnerId)
       /\ \A i \in DOMAIN deliveries :
             /\ i \in DOMAIN deliveries'
             /\ deliveries'[i].pickupAddress = deliveries[i].pickupAddress]_vars

\* a partner has changed its address through profile update while a delivery
\* of one of its orders keeps the address the partner had at creation
C25_Witness ==
    /\ req.op = "PUT /api/partners/profile"
    /\ resp.status = Success
    /\ \E i \in DOMAIN deliveries : \E o \in DOMAIN orders :
          /\ orders[o].id = deliveries[i].orderId
          /\ orders[o].partnerId = req.cred.id
          /\ deliveries[i].pickupAddress # ""
          /\ AddressOfPartner(req.cred.id) # deliveries[i].pickupAddress

(***************************************************************************)
(* Passwords.                                                              *)
(***************************************************************************)
\* the passwords of the accounts of a collection change only on a successful
\* change-password of the role, called with the account's own credential,
\* and a refused change-password changes none
PasswordGuarded(accounts, accountsAfter, op, role) ==
    /\ Len(accountsAfter) = Len(accounts)
    /\ \A i \in DOMAIN accounts :
          accountsAfter[i].password # accounts[i].password =>
              /\ req'.op = op
              /\ resp'.status = Success
              /\ req'.cred.role = role
              /\ req'.cred.id = accounts[i].id
    /\ req'.op = op /\ resp'.status # Success => accountsAfter = accounts

\* C26: the stored password of a customer, driver or partner account changes
\* only through that role's change-password operation called by the
\* account's own credential with the current password as oldPassword; with
\* a different oldPassword the call is refused and the password unchanged;
\* no other operation, profile update in particular, changes a password
C26_PasswordChangesGuarded ==
    [][/\ PasswordGuarded(customers, customers',
                          "PUT /api/customers/profile/password", "customer")
       /\ PasswordGuarded(drivers, drivers',
                          "PUT /api/drivers/profile/password", "driver")
       /\ PasswordGuarded(partners, partners',
                          "PUT /api/partners/profile/password", "partner")]_vars

====
